---- MODULE Spec2Model ----
(***************************************************************************)
(* A model of the ECD (electronic customs declaration) extractor:          *)
(*   src/extract_ecd_generic.py   ECDExtractorGeneric                      *)
(*   src/extract_ecd_customs.py   ECDExtractorCustoms(ECDExtractorGeneric) *)
(*   src/ecd_format_detector.py   ECDFormatDetector                        *)
(*                                                                         *)
(* A document is the list of its text lines, drawn from a finite           *)
(* vocabulary of literal lines.  The operations of Python's str and re     *)
(* that the code applies to a line (strip, isdigit, "in", re.match, ...)   *)
(* are tables over the vocabulary and over the strings derived from it,    *)
(* one table for each literal the code passes: match_d_8("^\\d{8}$", s) is  *)
(* re.match(r'^\d{8}$', s).  The conditions of the code are written with   *)
(* them as the code writes them.  Python indexes lines from 0: L(i) is     *)
(* self.lines[i].                                                          *)
(*                                                                         *)
(* Cyrillic text of the source is written in Latin transliteration inside  *)
(* strings; where a Cyrillic string and a Latin one would read the same,   *)
(* the Cyrillic one carries the suffix _cyr ("MK_cyr" is Cyrillic "MK").   *)
(***************************************************************************)
EXTENDS Integers, Sequences, FiniteSets, TLC

VARIABLES
    variant,            \* "generic" (ECDExtractorGeneric) or "customs" (ECDExtractorCustoms)
    doc,                \* the lines of the PDF's text, text.split('\n')
    lines,              \* self.lines
    data_start_index,   \* self.data_start_index
    data,               \* self.data
    pc,                 \* position of the extractor inside extract_all
    first,              \* the outcome of the previous run on the same document
    runs,               \* number of extractors constructed for the document so far
    calls,              \* number of calls of extract_all on the current extractor
    sample,             \* the text of the PDF's first two pages, as its set of fragments
    text,               \* ECDFormatDetector.text
    scores,             \* <<customs_indicators, standard_indicators>> of the last detection
    result,             \* the ECDFormat the last detection returned
    dpc,                \* position of the detector
    handles,            \* the fitz handles opened so far, each "open" or "closed"
    pages,              \* per page of the PDF: "text", "blank" or "raise" (get_text raises)
    page,               \* index of the next page to read
    apc,                \* position inside text acquisition
    routine,            \* the acquisition routine that was called
    command,            \* "batch" (batch_extract.py) or "single" (ecd_extract.py)
    pdf_files,          \* per PDF of the input directory, in glob order: how it fares
    env,                \* what the calls of the command do outside the documents
    bi,                 \* number of PDFs the loop of process_directory has handled
    results,            \* the list "results" of process_directory
    attempts,           \* the PDFs an ECDExtractor was constructed for, in order
    bpc,                \* position of the command
    exit_status,        \* the status the command hands to sys.exit, -1 while it runs
    expected_path,      \* the record in the reference file, None without a comparison
    expected,           \* "expected" of compare_with_expected after the call
    differences,        \* the list "differences" of compare_with_expected
    matchlist,          \* the list "matches" of compare_with_expected
    cpc,                \* position of the comparison
    images,             \* per page image: which of the three OCR attempts raise
    image_no,           \* number of page images extract_text_with_ocr has handled
    tried,              \* the OCR attempts made so far, each <<page, lang>>
    full_text,          \* "full_text" of extract_text_with_ocr, as its lines
    stored,             \* self.text and self.lines of the extractor that runs OCR
    opc                 \* position of extract_text_with_ocr

extractorVars == <<variant, doc, lines, data_start_index, data, pc, first, runs, calls>>
detectorVars == <<sample, text, scores, result, dpc>>
acquireVars == <<handles, pages, page, apc, routine>>
commandVars == <<command, pdf_files, env, bi, results, attempts, bpc, exit_status>>
compareVars == <<expected_path, expected, differences, matchlist, cpc>>
ocrVars == <<images, image_no, tried, full_text, stored, opc>>
vars == <<extractorVars, detectorVars, acquireVars, commandVars, compareVars, ocrVars>>

-----------------------------------------------------------------------------
(* Bounds of the model. *)

\* longest block of filled-in lines a generated document carries
MaxBlock == 3

\* extractors constructed, one after the other, for one document
MaxRuns == 2

\* pages of a generated PDF
MaxPages == 4

\* characters of text on a page that has text
PageChars == 120

\* PDFs in the input directory of a batch run
MaxFiles == 3

\* page images of a scanned PDF
MaxImages == 3
\* the calls of extract_all on one extractor
MaxCalls == 2

-----------------------------------------------------------------------------
(* Values of the record.  None is Python's None; a leaf carries its type.  *)

None == [t |-> "None"]
S(s) == [t |-> "str", s |-> s]
I(n) == [t |-> "int", n |-> n]
F(s) == [t |-> "float", f |-> s]

\* a dict with string keys: the empty one, "k in d", and d after "d[k] = v"
EmptyDict == [k \in {} |-> None]
Has(d, k) == k \in DOMAIN d
Put(d, k, v) == [x \in (DOMAIN d) \cup {k} |-> IF x = k THEN v ELSE d[x]]

Min(set) == CHOOSE m \in set : \A o \in set : m <= o
Max(set) == CHOOSE m \in set : \A o \in set : m >= o
min(a, b) == IF a <= b THEN a ELSE b
max(a, b) == IF a >= b THEN a ELSE b
\* the first (last) index of a loop "for i in range(...)" at which its body acts, or -1
FirstOf(set) == IF set = {} THEN -1 ELSE Min(set)
LastOf(set) == IF set = {} THEN -1 ELSE Max(set)

RECURSIVE Asc(_)
\* the members of a set of integers, ascending: the order a for loop meets them
Asc(set) == IF set = {} THEN <<>> ELSE <<Min(set)>> \o Asc(set \ {Min(set)})

RECURSIVE Flatten(_)
\* the concatenation of a sequence of sequences
Flatten(seqs) == IF seqs = <<>> THEN <<>> ELSE Head(seqs) \o Flatten(Tail(seqs))

\* str(n) of a non-negative integer: its decimal digits
Digit(d) ==
    CASE d = 0 -> "0" [] d = 1 -> "1" [] d = 2 -> "2" [] d = 3 -> "3" [] d = 4 -> "4"
      [] d = 5 -> "5" [] d = 6 -> "6" [] d = 7 -> "7" [] d = 8 -> "8" [] d = 9 -> "9"
RECURSIVE str(_)
str(n) == IF n < 10 THEN Digit(n) ELSE str(n \div 10) \o Digit(n % 10)

-----------------------------------------------------------------------------
(* The lines documents are made of. *)

Vocabulary ==
    {"",
     \* section landmarks
     "EXMK", "1 EXMK 341", "LRN : 24MK001", "2 Consignor/Exporter",
     \* goods items, generic layout
     "12345678", "87654321", "12345678 ", "PX", "14", "120,5", "Paleta",
     "Delovi za mashini", "Ventil-1  kom.", "5010(123) 5010(123)", "5016(0052639) 5007(9)",
     \* goods items, customs layout
     "33 Tarifna oznaka", "Paleta-14-PX", "Vzaemno opredeleno-24-ZZ",
     "Vzaemno opredeleno", "Vzaemno opredeleno-24-ZZ Paleta-14-PX",
     "35 Bruto masa", "120.5",
     "44 Dopolnitelni informacii", "AUN-MK19/2024, 5016-0052639",
     "5016-0052639 5016-0052639", "46 Statistichka vrednost",
     \* header, generic layout
     "KGM", "1200", "<sup2>", "SK1234AB", "SK1234AB/SK5678CD", "MK", "FR", "3", "EUR",
     "SEVERNA MAKEDONIJA", "FRANCE", "CPT", "0", "1", "2031", "TABANOVCE-PATN.",
     "a_cyr",
     \* parties, generic layout
     "MK4030990253804", "FIRMA DOOEL", "ul. Partizanska 1, Skopje",
     "FREYSSINET SAS", "BASE FIC 71210 St.Eusebe", "BASE FIC 00000 St.Eusebe", "52639",
     \* header and parties, customs layout
     "Bruto masa", "SK1234AB FR 1", "Vid na transport na granica",
     "15 Shifra na zemja", "a MK", "17 Zemja na namena", "FRANCIJA FR",
     "8 Primach", "29 Izlezen carinski organ", "MK002031 TABANOVCE",
     "MIKLOSHICHEVA ULICA 1D DOMZHALE 00000", "ULICA 1D DOMZHALE 000000",
     "ULICA 1D DOMZHALE 1230", "PRIMACH DOO", "SI", "Ne", ".", "Skopje",
     "Bilesha 50 1000"}

-----------------------------------------------------------------------------
(* The operations of Python's str and re that the code applies to lines.  Each   *)
(* is a table: its value, computed by Python, on the strings of the domain.  An  *)
(* operation that the code calls with literal arguments has one table for each   *)
(* of them, named after the operation and the literal; the literal stays the     *)
(* first argument of the call.  The domain is the vocabulary of lines and the    *)
(* text fragments, closed under the operations that yield strings; the strings   *)
(* the extractors and the detector handle stay inside it.                        *)

Strings ==
    {"", " 5", " 5016-0052639", " S", " SKOPJE", " Skopje", " s", " skopje", "-", "-B",
     "-BROJ", "-Broj", "-b", "-broj", ".", "0", "00", "00000", "000000", "002031",
     "005263", "0052639", "02", "025380", "0253804", "05", "052639", "1", "1 ",
     "1 EXMK 341", "1 exmk 341", "1,", "1.", "1/", "1/2026", "10", "1000", "12", "120",
     "120,5", "120.5", "1200", "123", "1230", "1234", "123456", "12345678",
     "12345678 ", "14", "14 CONSIGNOR/EXPORTER", "14 Consignor/Exporter",
     "14 consignor/exporter", "15", "15 SHIFRA NA ZEMJA", "15 Shifra na zemja",
     "15 shifra na zemja", "17", "17 ZEMJA NA NAMENA", "17 Zemja na namena",
     "17 zemja na namena", "19", "1D", "1d", "2", "2 ", "2 CONSIGNOR/EXPORTER",
     "2 CONSIGNOR/EXPORTER NO", "2 Consignor/Exporter", "2 Consignor/Exporter No",
     "2 consignor/exporter", "2 consignor/exporter no", "2 ISPRAKJACH/IZVOZNIK",
     "2 Isprakjach/Izvoznik", "2 isprakjach/izvoznik", "20", "2031", "21", "24",
     "24MK001", "24mk001", "29", "29 IZLEZEN CARINSKI ORGAN",
     "29 Izlezen carinski organ", "29 izlezen carinski organ", "3", "33",
     "33 TARIFNA OZNAKA", "33 Tarifna oznaka", "33 tarifna oznaka", "34", "341", "35",
     "35 BRUTO MASA", "35 Bruto masa", "35 bruto masa", "4", "40", "403099",
     "4030990253804", "44", "44 DOPOLNITELNI INFORMACII", "44 Dopolnitelni informacii",
     "44 dopolnitelni informacii", "46", "46 STATISTICHKA VREDNOST",
     "46 Statistichka vrednost", "46 statistichka vrednost", "5", "50", "5007",
     "5007(9)", "5010", "5010(123)", "5010(123) 5010(123)", "5016", "5016(0052639)",
     "5016(0052639) 5007(9)", "5016-0052639", "5016-0052639 5016-0052639", "52",
     "52639", "7", "7 ", "7 REFERENTEN BROJ 1/2026", "7 referenten broj 1/2026", "71",
     "71210", "78", "8", "8 ", "8 PRIMACH", "8 Primach", "8 primach", "87", "876543",
     "87654321", "9", "9 ", "9 5016-0052639", "9)", "9) 5007(9)", ":", "A", "A ",
     "A MK", "AU", "AUN", "AUN-MK19/2024", "AUN-MK19/2024,",
     "AUN-MK19/2024, 5016-0052639", "AUN-MK19/2024.", "AUN-MK19/2024. 5016-0052639",
     "BA", "BASE", "BASE FIC 00000 ST.EUSEBE", "BASE FIC 00000 St.Eusebe",
     "BASE FIC 71210 ST.EUSEBE", "BASE FIC 71210 St.Eusebe", "CO",
     "CONSIGNOR/EXPORTER", "CONSIGNOR/EXPORTER TOV.LIST", "CP", "CPT", "Co",
     "Consignor/Exporter", "Consignor/Exporter tov.list", "EU", "EUR", "EX", "EXMK",
     "FI", "FIC", "FR", "FR 1", "FRANCE", "FREYSSINET", "FREYSSINET SAS", "KG", "KGM",
     "LR", "LRN", "LRN : 24MK001", "MK", "MK002031", "MK002031 TABANOVCE", "MK19/2024",
     "MK4030990253804", "NO", "No", "PX", "SA", "SAS", "SI", "SK", "SK1234AB",
     "SK1234AB FR 1", "SK1234AB/SK5678CD", "ST", "ST.EUSEBE", "St", "St.Eusebe", "ZZ",
     "a", "a ", "a MK", "a mk", "au", "aun", "aun-mk19/2024", "aun-mk19/2024,",
     "aun-mk19/2024, 5016-0052639", "aun-mk19/2024.", "aun-mk19/2024. 5016-0052639",
     "ba", "base", "base fic 00000 st.eusebe", "base fic 71210 st.eusebe", "co",
     "consignor/exporter", "consignor/exporter tov.list", "cp", "cpt", "eu", "eur",
     "ex", "exmk", "fi", "fic", "fr", "fr 1", "france", "freyssinet", "freyssinet sas",
     "kg", "kgm", "lr", "lrn", "lrn : 24mk001", "mk", "mk002031", "mk002031 tabanovce",
     "mk19/2024", "mk4030990253804", "no", "px", "sa", "sas", "si", "sk", "sk1234ab",
     "sk1234ab fr 1", "sk1234ab/sk5678cd", "st", "st.eusebe", "zz", "<sup2>", "A_cyr",
     "BI", "BILESHA", "BILESHA 50", "BILESHA 50 1000", "BR", "BROJ", "BROEVI", "BRUTO",
     "BRUTO MASA", "Bi", "Bilesha", "Bilesha 50", "Bilesha 50 1000", "Br", "Broj",
     "Bruto", "Bruto masa", "VE", "VENTIL-1", "VENTIL-1  KOM.", "VENTIL-1KOM.", "VZ",
     "VZAEMNO", "VZAEMNO OPREDELENO", "VZAEMNO OPREDELENO-24-ZZ",
     "VZAEMNO OPREDELENO-24-ZZ PALETA-14-PX", "VI", "VID",
     "VID NA TRANSPORT NA GRANICA", "VR", "VREDNOST", "Ve", "Ventil-1",
     "Ventil-1  kom.", "Ventil-1kom.", "Vz", "Vzaemno", "Vzaemno opredeleno",
     "Vzaemno opredeleno-24-ZZ", "Vzaemno opredeleno-24-ZZ Paleta-14-PX", "Vi", "Vid",
     "Vid na transport na granica", "GR", "GRANICA", "DE", "DELOVI",
     "DELOVI ZA MASHINI", "DO", "DOMZHALE", "DOO", "DOOEL", "DOPOLNITELNI", "De",
     "Delovi", "Delovi za mashini", "Do", "Dopolnitelni", "EC", "ECD", "ZA", "ZE",
     "ZEMJA", "Ze", "Zemja", "I", "IZ", "IZLEZEN", "IN", "INFORMACII", "IS",
     "ISPRAKJACH/IZVOZNIK", "Iz", "Izlezen", "Is", "Isprakjach/Izvoznik", "KO", "KOM.",
     "KONTEJNER", "MA", "MAKEDONIJA", "MASA", "MASHINI", "MI", "MIKLOSHICHEVA",
     "MIKLOSHICHEVA ULICA 1D DOMZHALE", "MIKLOSHICHEVA ULICA 1D DOMZHALE 00000", "NA",
     "NAMENA", "NE", "Ne", "OZ", "OZNAKA", "OZNAKI",
     "OZNAKI I BROEVI - BROJ NA KONTEJNER", "OZNAKI I BROEVI -BROJ NA KONTEJNER", "OP",
     "OPREDELENO", "OPREDELENO-24-ZZ", "OR", "ORGAN", "Oz", "Oznaki",
     "Oznaki i broevi - Broj na kontejner", "Oznaki i broevi -Broj na kontejner",
     "PA_cyr", "PALETA", "PALETA-14-PX", "PARTIZANSKA", "PR", "PRIMACH", "PRIMACH DOO",
     "Pa", "Paleta", "Paleta-14-PX", "Partizanska", "Pr", "Primach", "RB", "RBD",
     "RBD 12", "RD", "RDB", "RDB 5", "RDB:", "RE", "REFERENTEN", "S", "SE", "SEVERNA",
     "SEVERNA MAKEDONIJA", "SK_cyr", "SKOPJE", "ST_cyr", "STATISTICHKA", "Sk",
     "Skopje", "St_cyr", "Statistichka", "TA", "TABANOVCE", "TABANOVCE-PATN.",
     "TARIFNA", "TO", "TOV.LIST", "TOV.LIST 123", "TR", "TRANSPORT", "Ta", "Tarifna",
     "UL", "UL.", "UL. PARTIZANSKA 1, SKOPJE", "UL. PARTIZANSKA 1. SKOPJE", "ULICA",
     "ULICA 1D DOMZHALE", "ULICA 1D DOMZHALE 000000", "ULICA 1D DOMZHALE 1230",
     "FI_cyr", "FIRMA", "FIRMA DOOEL", "FR_cyr", "FRANCIJA", "FRANCIJA FR", "CA",
     "CARINSKI", "SHI", "SHIFRA", "Shi", "Shifra", "a_cyr", "bi", "bilesha",
     "bilesha 50", "bilesha 50 1000", "br", "broevi", "broj", "bruto", "bruto masa",
     "ve", "ventil-1", "ventil-1  kom.", "ventil-1kom.", "vz", "vzaemno",
     "vzaemno opredeleno", "vzaemno opredeleno-24-zz",
     "vzaemno opredeleno-24-zz paleta-14-px", "vi", "vid",
     "vid na transport na granica", "vr", "vrednost", "gr", "granica", "de", "delovi",
     "delovi za mashini", "do", "domzhale", "doo", "dooel", "dopolnitelni", "ec",
     "ecd", "za", "ze", "zemja", "i", "iz", "izlezen", "in", "informacii", "is",
     "isprakjach/izvoznik", "ko", "kom.", "kontejner", "ma", "makedonija", "masa",
     "mashini", "mi", "mikloshicheva", "mikloshicheva ulica 1d domzhale",
     "mikloshicheva ulica 1d domzhale 00000", "na", "namena", "ne", "oz", "oznaka",
     "oznaki", "oznaki i broevi - broj na kontejner",
     "oznaki i broevi -broj na kontejner", "op", "opredeleno", "opredeleno-24-ZZ",
     "opredeleno-24-zz", "or", "organ", "pa", "paleta", "paleta-14-px", "partizanska",
     "pr", "primach", "primach doo", "rb", "rbd", "rbd 12", "rd", "rdb", "rdb 5",
     "rdb:", "re", "referenten", "s", "se", "severna", "severna makedonija", "sk_cyr",
     "skopje", "st_cyr", "statistichka", "ta", "tabanovce", "tabanovce-patn.",
     "tarifna", "to", "tov.list", "tov.list 123", "tr", "transport", "ul", "ul.",
     "ul. Partizanska 1, Skopje", "ul. Partizanska 1. Skopje",
     "ul. partizanska 1, skopje", "ul. partizanska 1. skopje", "ulica",
     "ulica 1d domzhale", "ulica 1d domzhale 000000", "ulica 1d domzhale 1230",
     "fi_cyr", "firma", "firma dooel", "fr_cyr", "francija", "francija fr", "ca",
     "carinski", "shi", "shifra"}

\* sub in s, for sub = ','
isin_1(sub, s) ==
    /\ sub = ","
    /\ s \in {"1,", "120,5", "AUN-MK19/2024,", "AUN-MK19/2024, 5016-0052639",
          "aun-mk19/2024,", "aun-mk19/2024, 5016-0052639", "UL. PARTIZANSKA 1, SKOPJE",
          "ul. Partizanska 1, Skopje", "ul. partizanska 1, skopje"}

\* sub in s, for sub = '15 Shifra na zemja'
isin_15_Shifra_na_zemja(sub, s) ==
    /\ sub = "15 Shifra na zemja"
    /\ s \in {"15 Shifra na zemja"}

\* sub in s, for sub = '17 Zemja na namena'
isin_17_Zemja_na_namena(sub, s) ==
    /\ sub = "17 Zemja na namena"
    /\ s \in {"17 Zemja na namena"}

\* sub in s, for sub = '2 Consignor'
isin_2_Consignor(sub, s) ==
    /\ sub = "2 Consignor"
    /\ s \in {"2 Consignor/Exporter", "2 Consignor/Exporter No"}

\* sub in s, for sub = '29 Izlezen'
isin_29_Izlezen(sub, s) ==
    /\ sub = "29 Izlezen"
    /\ s \in {"29 Izlezen carinski organ"}

\* sub in s, for sub = '32'
isin_32(sub, s) ==
    /\ sub = "32"
    /\ s \in {"87654321"}

\* sub in s, for sub = '33 Tarifn'
isin_33_Tarifn(sub, s) ==
    /\ sub = "33 Tarifn"
    /\ s \in {"33 Tarifna oznaka"}

\* sub in s, for sub = '33 Tarifna oznaka'
isin_33_Tarifna_oznaka(sub, s) ==
    /\ sub = "33 Tarifna oznaka"
    /\ s \in {"33 Tarifna oznaka"}

\* sub in s, for sub = '35 Bruto masa'
isin_35_Bruto_masa(sub, s) ==
    /\ sub = "35 Bruto masa"
    /\ s \in {"35 Bruto masa"}

\* sub in s, for sub = '44 Dopolnitelni'
isin_44_Dopolnitelni(sub, s) ==
    /\ sub = "44 Dopolnitelni"
    /\ s \in {"44 Dopolnitelni informacii"}

\* sub in s, for sub = '8 Primach'
isin_8_Primach(sub, s) ==
    /\ sub = "8 Primach"
    /\ s \in {"8 Primach"}

\* sub in s, for sub = '9 Finansovo'
isin_9_Finansovo(sub, s) ==
    /\ sub = "9 Finansovo"
    /\ s \in {}

\* sub in s, for sub = 'CPT'
isin_CPT(sub, s) ==
    /\ sub = "CPT"
    /\ s \in {"CPT"}

\* sub in s, for sub = 'Consignor / Exporter'
isin_Consignor_Exporter(sub, s) ==
    /\ sub = "Consignor / Exporter"
    /\ s \in {}

\* sub in s, for sub = 'Consignor/Exporter'
isin_Consignor_Exporter_2(sub, s) ==
    /\ sub = "Consignor/Exporter"
    /\ s \in {"14 Consignor/Exporter", "2 Consignor/Exporter", "2 Consignor/Exporter No",
          "Consignor/Exporter", "Consignor/Exporter tov.list"}

\* sub in s, for sub = 'DAP'
isin_DAP(sub, s) ==
    /\ sub = "DAP"
    /\ s \in {}

\* sub in s, for sub = 'EUR'
isin_EUR(sub, s) ==
    /\ sub = "EUR"
    /\ s \in {"EUR"}

\* sub in s, for sub = 'FCA'
isin_FCA(sub, s) ==
    /\ sub = "FCA"
    /\ s \in {}

\* sub in s, for sub = 'FRANCE'
isin_FRANCE(sub, s) ==
    /\ sub = "FRANCE"
    /\ s \in {"FRANCE"}

\* sub in s, for sub = 'GERMANY'
isin_GERMANY(sub, s) ==
    /\ sub = "GERMANY"
    /\ s \in {}

\* sub in s, for sub = 'ITALIA'
isin_ITALIA(sub, s) ==
    /\ sub = "ITALIA"
    /\ s \in {}

\* sub in s, for sub = 'LRN '
isin_LRN(sub, s) ==
    /\ sub = "LRN "
    /\ s \in {"LRN : 24MK001"}

\* sub in s, for sub = 'LRN : 24MK'
isin_LRN_24MK(sub, s) ==
    /\ sub = "LRN : 24MK"
    /\ s \in {"LRN : 24MK001"}

\* sub in s, for sub = 'LRN :'
isin_LRN_2(sub, s) ==
    /\ sub = "LRN :"
    /\ s \in {"LRN : 24MK001"}

\* sub in s, for sub = 'LRN:'
isin_LRN_3(sub, s) ==
    /\ sub = "LRN:"
    /\ s \in {}

\* sub in s, for sub = 'MACEDONIA'
isin_MACEDONIA(sub, s) ==
    /\ sub = "MACEDONIA"
    /\ s \in {}

\* sub in s, for sub = 'USD'
isin_USD(sub, s) ==
    /\ sub = "USD"
    /\ s \in {}

\* sub in s, for sub = 'a MK'
isin_a_MK(sub, s) ==
    /\ sub = "a MK"
    /\ s \in {"a MK"}

\* sub in s, for sub = 'str.'
isin_str(sub, s) ==
    /\ sub = "str."
    /\ s \in {}

\* sub in s, for sub = 'Bruto masa'
isin_Bruto_masa(sub, s) ==
    /\ sub = "Bruto masa"
    /\ s \in {"35 Bruto masa", "Bruto masa"}

\* sub in s, for sub = 'Vzaemno opredeleno'
isin_Vzaemno_opredeleno(sub, s) ==
    /\ sub = "Vzaemno opredeleno"
    /\ s \in {"Vzaemno opredeleno", "Vzaemno opredeleno-24-ZZ",
          "Vzaemno opredeleno-24-ZZ Paleta-14-PX"}

\* sub in s, for sub = 'Vid na'
isin_Vid_na(sub, s) ==
    /\ sub = "Vid na"
    /\ s \in {"Vid na transport na granica"}

\* sub in s, for sub = 'GERMANIJA'
isin_GERMANIJA(sub, s) ==
    /\ sub = "GERMANIJA"
    /\ s \in {}

\* sub in s, for sub = 'Zemja na namena'
isin_Zemja_na_namena(sub, s) ==
    /\ sub = "Zemja na namena"
    /\ s \in {"17 Zemja na namena"}

\* sub in s, for sub = 'Zemja na poagjanje'
isin_Zemja_na_poagjanje(sub, s) ==
    /\ sub = "Zemja na poagjanje"
    /\ s \in {}

\* sub in s, for sub = 'ITALIJA'
isin_ITALIJA(sub, s) ==
    /\ sub = "ITALIJA"
    /\ s \in {}

\* sub in s, for sub = 'Izlezen carinski organ'
isin_Izlezen_carinski_organ(sub, s) ==
    /\ sub = "Izlezen carinski organ"
    /\ s \in {"29 Izlezen carinski organ"}

\* sub in s, for sub = 'Isprakjach / Izvoznik'
isin_Isprakjach_Izvoznik(sub, s) ==
    /\ sub = "Isprakjach / Izvoznik"
    /\ s \in {}

\* sub in s, for sub = 'Isprakjach/Izvoznik'
isin_Isprakjach_Izvoznik_2(sub, s) ==
    /\ sub = "Isprakjach/Izvoznik"
    /\ s \in {"2 Isprakjach/Izvoznik", "Isprakjach/Izvoznik"}

\* sub in s, for sub = 'Kvota'
isin_Kvota(sub, s) ==
    /\ sub = "Kvota"
    /\ s \in {}

\* sub in s, for sub = 'Koleti'
isin_Koleti(sub, s) ==
    /\ sub = "Koleti"
    /\ s \in {}

\* sub in s, for sub = 'MAKEDONIJA'
isin_MAKEDONIJA(sub, s) ==
    /\ sub = "MAKEDONIJA"
    /\ s \in {"MAKEDONIJA", "SEVERNA MAKEDONIJA"}

\* sub in s, for sub = 'MIKLOSHICHEVA'
isin_MIKLOSHICHEVA(sub, s) ==
    /\ sub = "MIKLOSHICHEVA"
    /\ s \in {"MIKLOSHICHEVA", "MIKLOSHICHEVA ULICA 1D DOMZHALE",
          "MIKLOSHICHEVA ULICA 1D DOMZHALE 00000"}

\* sub in s, for sub = 'Neto masa'
isin_Neto_masa(sub, s) ==
    /\ sub = "Neto masa"
    /\ s \in {}

\* sub in s, for sub = 'Oznaki i broevi - Broj na kontejner'
isin_Oznaki_i_broevi_Broj_na(sub, s) ==
    /\ sub = "Oznaki i broevi - Broj na kontejner"
    /\ s \in {"Oznaki i broevi - Broj na kontejner"}

\* sub in s, for sub = 'Oznaki i broevi'
isin_Oznaki_i_broevi(sub, s) ==
    /\ sub = "Oznaki i broevi"
    /\ s \in {"Oznaki i broevi - Broj na kontejner", "Oznaki i broevi -Broj na kontejner"}

\* sub in s, for sub = 'POSTAPKA'
isin_POSTAPKA(sub, s) ==
    /\ sub = "POSTAPKA"
    /\ s \in {}

\* sub in s, for sub = 'Paleta'
isin_Paleta(sub, s) ==
    /\ sub = "Paleta"
    /\ s \in {"Vzaemno opredeleno-24-ZZ Paleta-14-PX", "Paleta", "Paleta-14-PX"}

\* sub in s, for sub = 'RBD'
isin_RBD(sub, s) ==
    /\ sub = "RBD"
    /\ s \in {"RBD", "RBD 12"}

\* sub in s, for sub = 'RDB'
isin_RDB(sub, s) ==
    /\ sub = "RDB"
    /\ s \in {"RDB", "RDB 5", "RDB:"}

\* sub in s, for sub = 'SEVERNA MAKEDONIJA'
isin_SEVERNA_MAKEDONIJA(sub, s) ==
    /\ sub = "SEVERNA MAKEDONIJA"
    /\ s \in {"SEVERNA MAKEDONIJA"}

\* sub in s, for sub = 'SLOVEN'
isin_SLOVEN(sub, s) ==
    /\ sub = "SLOVEN"
    /\ s \in {}

\* sub in s, for sub = 'Tarifna oznaka'
isin_Tarifna_oznaka(sub, s) ==
    /\ sub = "Tarifna oznaka"
    /\ s \in {"33 Tarifna oznaka"}

\* sub in s, for sub = 'UL.'
isin_UL(sub, s) ==
    /\ sub = "UL."
    /\ s \in {"UL.", "UL. PARTIZANSKA 1, SKOPJE", "UL. PARTIZANSKA 1. SKOPJE"}

\* sub in s, for sub = 'ULICA'
isin_ULICA(sub, s) ==
    /\ sub = "ULICA"
    /\ s \in {"MIKLOSHICHEVA ULICA 1D DOMZHALE", "MIKLOSHICHEVA ULICA 1D DOMZHALE 00000",
          "ULICA", "ULICA 1D DOMZHALE", "ULICA 1D DOMZHALE 000000",
          "ULICA 1D DOMZHALE 1230"}

\* sub in s, for sub = 'FRANCE_cyr'
isin_FRANCE_2(sub, s) ==
    /\ sub = "FRANCE_cyr"
    /\ s \in {}

\* sub in s, for sub = 'FRANCIJA'
isin_FRANCIJA(sub, s) ==
    /\ sub = "FRANCIJA"
    /\ s \in {"FRANCIJA", "FRANCIJA FR"}

\* sub in s, for sub = 'bul.'
isin_bul(sub, s) ==
    /\ sub = "bul."
    /\ s \in {}

\* sub in s, for sub = 'informacii'
isin_informacii(sub, s) ==
    /\ sub = "informacii"
    /\ s \in {"44 Dopolnitelni informacii", "44 dopolnitelni informacii", "informacii"}

\* sub in s, for sub = 'na granica'
isin_na_granica(sub, s) ==
    /\ sub = "na granica"
    /\ s \in {"Vid na transport na granica", "vid na transport na granica"}

\* sub in s, for sub = 'na stoka'
isin_na_stoka(sub, s) ==
    /\ sub = "na stoka"
    /\ s \in {}

\* sub in s, for sub = 'opis'
isin_opis(sub, s) ==
    /\ sub = "opis"
    /\ s \in {}

\* sub in s, for sub = 'paleta'
isin_paleta(sub, s) ==
    /\ sub = "paleta"
    /\ s \in {"vzaemno opredeleno-24-zz paleta-14-px", "paleta", "paleta-14-px"}

\* sub in s, for sub = 'prolozheni'
isin_prolozheni(sub, s) ==
    /\ sub = "prolozheni"
    /\ s \in {}

\* sub in s, for sub = 'tov.list'
isin_tov_list(sub, s) ==
    /\ sub = "tov.list"
    /\ s \in {"Consignor/Exporter tov.list", "consignor/exporter tov.list", "tov.list",
          "tov.list 123"}

\* sub in s, for sub = 'tovaren list'
isin_tovaren_list(sub, s) ==
    /\ sub = "tovaren list"
    /\ s \in {}

\* sub in s, for sub = 'transport'
isin_transport(sub, s) ==
    /\ sub = "transport"
    /\ s \in {"Vid na transport na granica", "vid na transport na granica", "transport"}

\* sub in s, for sub = 'ul.'
isin_ul(sub, s) ==
    /\ sub = "ul."
    /\ s \in {"ul.", "ul. Partizanska 1, Skopje", "ul. Partizanska 1. Skopje",
          "ul. partizanska 1, skopje", "ul. partizanska 1. skopje"}

\* s.startswith(prefix), for prefix = '31 '
startswith_31(prefix, s) ==
    /\ prefix = "31 "
    /\ s \in {}

\* s.startswith(prefix), for prefix = '32 '
startswith_32(prefix, s) ==
    /\ prefix = "32 "
    /\ s \in {}

\* s.startswith(prefix), for prefix = '33 '
startswith_33(prefix, s) ==
    /\ prefix = "33 "
    /\ s \in {"33 TARIFNA OZNAKA", "33 Tarifna oznaka", "33 tarifna oznaka"}

\* s.startswith(prefix), for prefix = '34 '
startswith_34(prefix, s) ==
    /\ prefix = "34 "
    /\ s \in {}

\* s.startswith(prefix), for prefix = '35 '
startswith_35(prefix, s) ==
    /\ prefix = "35 "
    /\ s \in {"35 BRUTO MASA", "35 Bruto masa", "35 bruto masa"}

\* s.startswith(prefix), for prefix = '37 '
startswith_37(prefix, s) ==
    /\ prefix = "37 "
    /\ s \in {}

\* s.startswith(prefix), for prefix = '38 '
startswith_38(prefix, s) ==
    /\ prefix = "38 "
    /\ s \in {}

\* s.startswith(prefix), for prefix = '39 '
startswith_39(prefix, s) ==
    /\ prefix = "39 "
    /\ s \in {}

\* s.startswith(prefix), for prefix = '40 '
startswith_40(prefix, s) ==
    /\ prefix = "40 "
    /\ s \in {}

\* s.startswith(prefix), for prefix = '41 '
startswith_41(prefix, s) ==
    /\ prefix = "41 "
    /\ s \in {}

\* s.startswith(prefix), for prefix = '44 '
startswith_44(prefix, s) ==
    /\ prefix = "44 "
    /\ s \in {"44 DOPOLNITELNI INFORMACII", "44 Dopolnitelni informacii",
          "44 dopolnitelni informacii"}

\* s.startswith(prefix), for prefix = '46 '
startswith_46(prefix, s) ==
    /\ prefix = "46 "
    /\ s \in {"46 STATISTICHKA VREDNOST", "46 Statistichka vrednost",
          "46 statistichka vrednost"}

\* s.startswith(prefix), for prefix = '47 '
startswith_47(prefix, s) ==
    /\ prefix = "47 "
    /\ s \in {}

\* s.startswith(prefix), for prefix = 'MK'
startswith_MK(prefix, s) ==
    /\ prefix = "MK"
    /\ s \in {"MK", "MK002031", "MK002031 TABANOVCE", "MK19/2024", "MK4030990253804"}

\* s.startswith(prefix), for prefix = 'Shifr'
startswith_Shifr(prefix, s) ==
    /\ prefix = "Shifr"
    /\ s \in {"Shifra"}

\* re.match(p, s) finds a match, for p = '^(EX|IM)[A-Z]{2}$'
match_EX_IM_A_Z_2(p, s) ==
    /\ p = "^(EX|IM)[A-Z]{2}$"
    /\ s \in {"EXMK"}

\* re.match(p, s) finds a match, for p = r'^([A-Z]{2})\s'
match_A_Z_2_s(p, s) ==
    /\ p = "^([A-Z]{2})\\s"
    /\ s \in {"FR 1"}

\* re.match(p, s) finds a match, for p = r'^([A-Z]{2}\d{13})$'
match_A_Z_2_d_13(p, s) ==
    /\ p = "^([A-Z]{2}\\d{13})$"
    /\ s \in {"MK4030990253804"}

\* re.match(p, s) finds a match, for p = r'^([A-Z]{2}\d{4}[A-Z]{2}(?:/[A-Z]{2}\d{4}[A-Z]{2})?)$'
match_A_Z_2_d_4_A_Z_2_A_Z_2_d(p, s) ==
    /\ p = "^([A-Z]{2}\\d{4}[A-Z]{2}(?:/[A-Z]{2}\\d{4}[A-Z]{2})?)$"
    /\ s \in {"SK1234AB", "SK1234AB/SK5678CD"}

\* re.match(p, s) finds a match, for p = '^0+$'
match_0(p, s) ==
    /\ p = "^0+$"
    /\ s \in {"0", "00", "00000", "000000"}

\* re.match(p, s) finds a match, for p = '^[A-Z]{2,3}$'
match_A_Z_2_3(p, s) ==
    /\ p = "^[A-Z]{2,3}$"
    /\ s \in {"AU", "AUN", "BA", "CO", "CP", "CPT", "EU", "EUR", "EX", "FI", "FIC", "FR",
          "KG", "KGM", "LR", "LRN", "MK", "NO", "PX", "SA", "SAS", "SI", "SK", "ST",
          "ZZ"}

\* re.match(p, s) finds a match, for p = '^[A-Z]{2}$'
match_A_Z_2(p, s) ==
    /\ p = "^[A-Z]{2}$"
    /\ s \in {"AU", "BA", "CO", "CP", "EU", "EX", "FI", "FR", "KG", "LR", "MK", "NO", "PX",
          "SA", "SI", "SK", "ST", "ZZ"}

\* re.match(p, s) finds a match, for p = r'^[A-Z]{2}\d+$'
match_A_Z_2_d(p, s) ==
    /\ p = "^[A-Z]{2}\\d+$"
    /\ s \in {"MK002031", "MK4030990253804"}

\* re.match(p, s) finds a match, for p = r'^\d+$'
match_d(p, s) ==
    /\ p = "^\\d+$"
    /\ s \in {"0", "00", "00000", "000000", "002031", "005263", "0052639", "02", "025380",
          "0253804", "05", "052639", "1", "10", "1000", "12", "120", "1200", "123",
          "1230", "1234", "123456", "12345678", "14", "15", "17", "19", "2", "20",
          "2031", "21", "24", "29", "3", "33", "34", "341", "35", "4", "40", "403099",
          "4030990253804", "44", "46", "5", "50", "5007", "5010", "5016", "52",
          "52639", "7", "71", "71210", "78", "8", "87", "876543", "87654321", "9"}

\* re.match(p, s) finds a match, for p = r'^\d+\.?\d*$'
match_d_d(p, s) ==
    /\ p = "^\\d+\\.?\\d*$"
    /\ s \in {"0", "00", "00000", "000000", "002031", "005263", "0052639", "02", "025380",
          "0253804", "05", "052639", "1", "1.", "10", "1000", "12", "120", "120.5",
          "1200", "123", "1230", "1234", "123456", "12345678", "14", "15", "17", "19",
          "2", "20", "2031", "21", "24", "29", "3", "33", "34", "341", "35", "4", "40",
          "403099", "4030990253804", "44", "46", "5", "50", "5007", "5010", "5016",
          "52", "52639", "7", "71", "71210", "78", "8", "87", "876543", "87654321", "9"}

\* re.match(p, s) finds a match, for p = r'^\d{4,6}$'
match_d_4_6(p, s) ==
    /\ p = "^\\d{4,6}$"
    /\ s \in {"00000", "000000", "002031", "005263", "025380", "052639", "1000", "1200",
          "1230", "1234", "123456", "2031", "403099", "5007", "5010", "5016", "52639",
          "71210", "876543"}

\* re.match(p, s) finds a match, for p = r'^\d{4,7}$'
match_d_4_7(p, s) ==
    /\ p = "^\\d{4,7}$"
    /\ s \in {"00000", "000000", "002031", "005263", "0052639", "025380", "0253804",
          "052639", "1000", "1200", "1230", "1234", "123456", "2031", "403099", "5007",
          "5010", "5016", "52639", "71210", "876543"}

\* re.match(p, s) finds a match, for p = r'^\d{4}$'
match_d_4(p, s) ==
    /\ p = "^\\d{4}$"
    /\ s \in {"1000", "1200", "1230", "1234", "2031", "5007", "5010", "5016"}

\* re.match(p, s) finds a match, for p = r'^\d{8}$'
match_d_8(p, s) ==
    /\ p = "^\\d{8}$"
    /\ s \in {"12345678", "87654321"}

\* re.search(p, s) finds a match, for p = r'(MK)?(\d{6})'
search_MK_d_6(p, s) ==
    /\ p = "(MK)?(\\d{6})"
    /\ s \in {" 5016-0052639", "000000", "002031", "005263", "0052639", "025380",
          "0253804", "052639", "123456", "12345678", "12345678 ", "403099",
          "4030990253804", "5016(0052639)", "5016(0052639) 5007(9)", "5016-0052639",
          "5016-0052639 5016-0052639", "876543", "87654321", "9 5016-0052639",
          "AUN-MK19/2024, 5016-0052639", "AUN-MK19/2024. 5016-0052639", "MK002031",
          "MK002031 TABANOVCE", "MK4030990253804", "aun-mk19/2024, 5016-0052639",
          "aun-mk19/2024. 5016-0052639", "mk002031", "mk002031 tabanovce",
          "mk4030990253804", "ULICA 1D DOMZHALE 000000", "ulica 1d domzhale 000000"}

\* re.search(p, s) finds a match, for p = r'([A-Z]{2}\d{13})'
search_A_Z_2_d_13(p, s) ==
    /\ p = "([A-Z]{2}\\d{13})"
    /\ s \in {"MK4030990253804"}

\* re.search(p, s) finds a match, for p = r'([A-Z]{2}\d{4}[A-Z]{2}(?:/[A-Z]{2}\d{4}[A-Z]{2})?)'
search_A_Z_2_d_4_A_Z_2_A_Z_2_d(p, s) ==
    /\ p = "([A-Z]{2}\\d{4}[A-Z]{2}(?:/[A-Z]{2}\\d{4}[A-Z]{2})?)"
    /\ s \in {"SK1234AB", "SK1234AB FR 1", "SK1234AB/SK5678CD"}

\* re.search(p, s) finds a match, for p = r'(\d+\.?\d*)'
search_d_d(p, s) ==
    /\ p = "(\\d+\\.?\\d*)"
    /\ s \in {" 5", " 5016-0052639", "0", "00", "00000", "000000", "002031", "005263",
          "0052639", "02", "025380", "0253804", "05", "052639", "1", "1 ",
          "1 EXMK 341", "1 exmk 341", "1,", "1.", "1/", "1/2026", "10", "1000", "12",
          "120", "120,5", "120.5", "1200", "123", "1230", "1234", "123456", "12345678",
          "12345678 ", "14", "14 CONSIGNOR/EXPORTER", "14 Consignor/Exporter",
          "14 consignor/exporter", "15", "15 SHIFRA NA ZEMJA", "15 Shifra na zemja",
          "15 shifra na zemja", "17", "17 ZEMJA NA NAMENA", "17 Zemja na namena",
          "17 zemja na namena", "19", "1D", "1d", "2", "2 ", "2 CONSIGNOR/EXPORTER",
          "2 CONSIGNOR/EXPORTER NO", "2 Consignor/Exporter", "2 Consignor/Exporter No",
          "2 consignor/exporter", "2 consignor/exporter no", "2 ISPRAKJACH/IZVOZNIK",
          "2 Isprakjach/Izvoznik", "2 isprakjach/izvoznik", "20", "2031", "21", "24",
          "24MK001", "24mk001", "29", "29 IZLEZEN CARINSKI ORGAN",
          "29 Izlezen carinski organ", "29 izlezen carinski organ", "3", "33",
          "33 TARIFNA OZNAKA", "33 Tarifna oznaka", "33 tarifna oznaka", "34", "341",
          "35", "35 BRUTO MASA", "35 Bruto masa", "35 bruto masa", "4", "40", "403099",
          "4030990253804", "44", "44 DOPOLNITELNI INFORMACII",
          "44 Dopolnitelni informacii", "44 dopolnitelni informacii", "46",
          "46 STATISTICHKA VREDNOST", "46 Statistichka vrednost",
          "46 statistichka vrednost", "5", "50", "5007", "5007(9)", "5010",
          "5010(123)", "5010(123) 5010(123)", "5016", "5016(0052639)",
          "5016(0052639) 5007(9)", "5016-0052639", "5016-0052639 5016-0052639", "52",
          "52639", "7", "7 ", "7 REFERENTEN BROJ 1/2026", "7 referenten broj 1/2026",
          "71", "71210", "78", "8", "8 ", "8 PRIMACH", "8 Primach", "8 primach", "87",
          "876543", "87654321", "9", "9 ", "9 5016-0052639", "9)", "9) 5007(9)",
          "AUN-MK19/2024", "AUN-MK19/2024,", "AUN-MK19/2024, 5016-0052639",
          "AUN-MK19/2024.", "AUN-MK19/2024. 5016-0052639", "BASE FIC 00000 ST.EUSEBE",
          "BASE FIC 00000 St.Eusebe", "BASE FIC 71210 ST.EUSEBE",
          "BASE FIC 71210 St.Eusebe", "FR 1", "LRN : 24MK001", "MK002031",
          "MK002031 TABANOVCE", "MK19/2024", "MK4030990253804", "SK1234AB",
          "SK1234AB FR 1", "SK1234AB/SK5678CD", "aun-mk19/2024", "aun-mk19/2024,",
          "aun-mk19/2024, 5016-0052639", "aun-mk19/2024.",
          "aun-mk19/2024. 5016-0052639", "base fic 00000 st.eusebe",
          "base fic 71210 st.eusebe", "fr 1", "lrn : 24mk001", "mk002031",
          "mk002031 tabanovce", "mk19/2024", "mk4030990253804", "sk1234ab",
          "sk1234ab fr 1", "sk1234ab/sk5678cd", "BILESHA 50", "BILESHA 50 1000",
          "Bilesha 50", "Bilesha 50 1000", "VENTIL-1", "VENTIL-1  KOM.",
          "VENTIL-1KOM.", "VZAEMNO OPREDELENO-24-ZZ",
          "VZAEMNO OPREDELENO-24-ZZ PALETA-14-PX", "Ventil-1", "Ventil-1  kom.",
          "Ventil-1kom.", "Vzaemno opredeleno-24-ZZ",
          "Vzaemno opredeleno-24-ZZ Paleta-14-PX", "MIKLOSHICHEVA ULICA 1D DOMZHALE",
          "MIKLOSHICHEVA ULICA 1D DOMZHALE 00000", "OPREDELENO-24-ZZ", "PALETA-14-PX",
          "Paleta-14-PX", "RBD 12", "RDB 5", "TOV.LIST 123",
          "UL. PARTIZANSKA 1, SKOPJE", "UL. PARTIZANSKA 1. SKOPJE",
          "ULICA 1D DOMZHALE", "ULICA 1D DOMZHALE 000000", "ULICA 1D DOMZHALE 1230",
          "bilesha 50", "bilesha 50 1000", "ventil-1", "ventil-1  kom.",
          "ventil-1kom.", "vzaemno opredeleno-24-zz",
          "vzaemno opredeleno-24-zz paleta-14-px", "mikloshicheva ulica 1d domzhale",
          "mikloshicheva ulica 1d domzhale 00000", "opredeleno-24-ZZ",
          "opredeleno-24-zz", "paleta-14-px", "rbd 12", "rdb 5", "tov.list 123",
          "ul. Partizanska 1, Skopje", "ul. Partizanska 1. Skopje",
          "ul. partizanska 1, skopje", "ul. partizanska 1. skopje",
          "ulica 1d domzhale", "ulica 1d domzhale 000000", "ulica 1d domzhale 1230"}

\* re.search(p, s) finds a match, for p = r'(\d{4,6})\s+([^\n]+)$'
search_d_4_6_s_n(p, s) ==
    /\ p = "(\\d{4,6})\\s+([^\\n]+)$"
    /\ s \in {"5016-0052639 5016-0052639", "BASE FIC 00000 ST.EUSEBE",
          "BASE FIC 00000 St.Eusebe", "BASE FIC 71210 ST.EUSEBE",
          "BASE FIC 71210 St.Eusebe", "MK002031 TABANOVCE", "base fic 00000 st.eusebe",
          "base fic 71210 st.eusebe", "mk002031 tabanovce"}

\* re.search(p, s) finds a match, for p = r'(Vzaemno opredeleno|Paleta|Karton|Kutija|Sandak)-\d+-[A-Z]{2}'
search_Vzaemno_opredeleno_Palet(p, s) ==
    /\ p = "(Vzaemno opredeleno|Paleta|Karton|Kutija|Sandak)-\\d+-[A-Z]{2}"
    /\ s \in {"Vzaemno opredeleno-24-ZZ", "Vzaemno opredeleno-24-ZZ Paleta-14-PX",
          "Paleta-14-PX"}

\* re.search(p, s) finds a match, for p = r'(Paleta|Karton|Kutija|Sandak|Vreka|Kontejner)-(\d+)-([A-Z]{2})'
search_Paleta_Karton_Kutija_San(p, s) ==
    /\ p = "(Paleta|Karton|Kutija|Sandak|Vreka|Kontejner)-(\\d+)-([A-Z]{2})"
    /\ s \in {"Vzaemno opredeleno-24-ZZ Paleta-14-PX", "Paleta-14-PX"}

\* re.search(p, s) finds a match, for p = r'LRN\s*:\s*\d{2}MK'
search_LRN_s_s_d_2_MK(p, s) ==
    /\ p = "LRN\\s*:\\s*\\d{2}MK"
    /\ s \in {"LRN : 24MK001"}

\* re.search(p, s) finds a match, for p = r'\b(EX|IM)[A-Z]{2}\b'
search_b_EX_IM_A_Z_2_b(p, s) ==
    /\ p = "\\b(EX|IM)[A-Z]{2}\\b"
    /\ s \in {"1 EXMK 341", "EXMK"}

\* re.search(p, s) finds a match, for p = r'\b([A-Z]{2})\b'
search_b_A_Z_2_b(p, s) ==
    /\ p = "\\b([A-Z]{2})\\b"
    /\ s \in {"2 CONSIGNOR/EXPORTER NO", "A MK", "AU", "BA", "BASE FIC 00000 ST.EUSEBE",
          "BASE FIC 71210 ST.EUSEBE", "CO", "CP", "EU", "EX", "FI", "FR", "FR 1", "KG",
          "LR", "MK", "NO", "PX", "SA", "SI", "SK", "SK1234AB FR 1", "ST", "ST.EUSEBE",
          "ZZ", "a MK", "VZAEMNO OPREDELENO-24-ZZ",
          "VZAEMNO OPREDELENO-24-ZZ PALETA-14-PX", "Vzaemno opredeleno-24-ZZ",
          "Vzaemno opredeleno-24-ZZ Paleta-14-PX", "OPREDELENO-24-ZZ", "PALETA-14-PX",
          "Paleta-14-PX", "FRANCIJA FR", "opredeleno-24-ZZ"}

\* re.search(p, s) finds a match, for p = r'\b(\d{8})\b'
search_b_d_8_b(p, s) ==
    /\ p = "\\b(\\d{8})\\b"
    /\ s \in {"12345678", "12345678 ", "87654321"}

\* re.search(p, s) finds a match, for p = r'\d'
search_d(p, s) ==
    /\ p = "\\d"
    /\ s \in {" 5", " 5016-0052639", "0", "00", "00000", "000000", "002031", "005263",
          "0052639", "02", "025380", "0253804", "05", "052639", "1", "1 ",
          "1 EXMK 341", "1 exmk 341", "1,", "1.", "1/", "1/2026", "10", "1000", "12",
          "120", "120,5", "120.5", "1200", "123", "1230", "1234", "123456", "12345678",
          "12345678 ", "14", "14 CONSIGNOR/EXPORTER", "14 Consignor/Exporter",
          "14 consignor/exporter", "15", "15 SHIFRA NA ZEMJA", "15 Shifra na zemja",
          "15 shifra na zemja", "17", "17 ZEMJA NA NAMENA", "17 Zemja na namena",
          "17 zemja na namena", "19", "1D", "1d", "2", "2 ", "2 CONSIGNOR/EXPORTER",
          "2 CONSIGNOR/EXPORTER NO", "2 Consignor/Exporter", "2 Consignor/Exporter No",
          "2 consignor/exporter", "2 consignor/exporter no", "2 ISPRAKJACH/IZVOZNIK",
          "2 Isprakjach/Izvoznik", "2 isprakjach/izvoznik", "20", "2031", "21", "24",
          "24MK001", "24mk001", "29", "29 IZLEZEN CARINSKI ORGAN",
          "29 Izlezen carinski organ", "29 izlezen carinski organ", "3", "33",
          "33 TARIFNA OZNAKA", "33 Tarifna oznaka", "33 tarifna oznaka", "34", "341",
          "35", "35 BRUTO MASA", "35 Bruto masa", "35 bruto masa", "4", "40", "403099",
          "4030990253804", "44", "44 DOPOLNITELNI INFORMACII",
          "44 Dopolnitelni informacii", "44 dopolnitelni informacii", "46",
          "46 STATISTICHKA VREDNOST", "46 Statistichka vrednost",
          "46 statistichka vrednost", "5", "50", "5007", "5007(9)", "5010",
          "5010(123)", "5010(123) 5010(123)", "5016", "5016(0052639)",
          "5016(0052639) 5007(9)", "5016-0052639", "5016-0052639 5016-0052639", "52",
          "52639", "7", "7 ", "7 REFERENTEN BROJ 1/2026", "7 referenten broj 1/2026",
          "71", "71210", "78", "8", "8 ", "8 PRIMACH", "8 Primach", "8 primach", "87",
          "876543", "87654321", "9", "9 ", "9 5016-0052639", "9)", "9) 5007(9)",
          "AUN-MK19/2024", "AUN-MK19/2024,", "AUN-MK19/2024, 5016-0052639",
          "AUN-MK19/2024.", "AUN-MK19/2024. 5016-0052639", "BASE FIC 00000 ST.EUSEBE",
          "BASE FIC 00000 St.Eusebe", "BASE FIC 71210 ST.EUSEBE",
          "BASE FIC 71210 St.Eusebe", "FR 1", "LRN : 24MK001", "MK002031",
          "MK002031 TABANOVCE", "MK19/2024", "MK4030990253804", "SK1234AB",
          "SK1234AB FR 1", "SK1234AB/SK5678CD", "aun-mk19/2024", "aun-mk19/2024,",
          "aun-mk19/2024, 5016-0052639", "aun-mk19/2024.",
          "aun-mk19/2024. 5016-0052639", "base fic 00000 st.eusebe",
          "base fic 71210 st.eusebe", "fr 1", "lrn : 24mk001", "mk002031",
          "mk002031 tabanovce", "mk19/2024", "mk4030990253804", "sk1234ab",
          "sk1234ab fr 1", "sk1234ab/sk5678cd", "BILESHA 50", "BILESHA 50 1000",
          "Bilesha 50", "Bilesha 50 1000", "VENTIL-1", "VENTIL-1  KOM.",
          "VENTIL-1KOM.", "VZAEMNO OPREDELENO-24-ZZ",
          "VZAEMNO OPREDELENO-24-ZZ PALETA-14-PX", "Ventil-1", "Ventil-1  kom.",
          "Ventil-1kom.", "Vzaemno opredeleno-24-ZZ",
          "Vzaemno opredeleno-24-ZZ Paleta-14-PX", "MIKLOSHICHEVA ULICA 1D DOMZHALE",
          "MIKLOSHICHEVA ULICA 1D DOMZHALE 00000", "OPREDELENO-24-ZZ", "PALETA-14-PX",
          "Paleta-14-PX", "RBD 12", "RDB 5", "TOV.LIST 123",
          "UL. PARTIZANSKA 1, SKOPJE", "UL. PARTIZANSKA 1. SKOPJE",
          "ULICA 1D DOMZHALE", "ULICA 1D DOMZHALE 000000", "ULICA 1D DOMZHALE 1230",
          "bilesha 50", "bilesha 50 1000", "ventil-1", "ventil-1  kom.",
          "ventil-1kom.", "vzaemno opredeleno-24-zz",
          "vzaemno opredeleno-24-zz paleta-14-px", "mikloshicheva ulica 1d domzhale",
          "mikloshicheva ulica 1d domzhale 00000", "opredeleno-24-ZZ",
          "opredeleno-24-zz", "paleta-14-px", "rbd 12", "rdb 5", "tov.list 123",
          "ul. Partizanska 1, Skopje", "ul. Partizanska 1. Skopje",
          "ul. partizanska 1, skopje", "ul. partizanska 1. skopje",
          "ulica 1d domzhale", "ulica 1d domzhale 000000", "ulica 1d domzhale 1230"}

\* re.search(p, s) finds a match, for p = r'\s(\d{4,5})\s*$'
search_s_d_4_5_s(p, s) ==
    /\ p = "\\s(\\d{4,5})\\s*$"
    /\ s \in {"BILESHA 50 1000", "Bilesha 50 1000",
          "MIKLOSHICHEVA ULICA 1D DOMZHALE 00000", "ULICA 1D DOMZHALE 1230",
          "bilesha 50 1000", "mikloshicheva ulica 1d domzhale 00000",
          "ulica 1d domzhale 1230"}

\* re.search(p, s) finds a match, for p = r'\s(\d{4,6})\s*$'
search_s_d_4_6_s(p, s) ==
    /\ p = "\\s(\\d{4,6})\\s*$"
    /\ s \in {"BILESHA 50 1000", "Bilesha 50 1000",
          "MIKLOSHICHEVA ULICA 1D DOMZHALE 00000", "ULICA 1D DOMZHALE 000000",
          "ULICA 1D DOMZHALE 1230", "bilesha 50 1000",
          "mikloshicheva ulica 1d domzhale 00000", "ulica 1d domzhale 000000",
          "ulica 1d domzhale 1230"}

\* re.search(p, s) finds a match, for p = r'RDB\s+\d'
search_RDB_s_d(p, s) ==
    /\ p = "RDB\\s+\\d"
    /\ s \in {"RDB 5"}

\* re.search(p, s) finds a match, for p = r'opredeleno-(\d+)-([A-Z]{2})'
search_opredeleno_d_A_Z_2(p, s) ==
    /\ p = "opredeleno-(\\d+)-([A-Z]{2})"
    /\ s \in {"Vzaemno opredeleno-24-ZZ", "Vzaemno opredeleno-24-ZZ Paleta-14-PX",
          "opredeleno-24-ZZ"}

\* re.search(p, s, re.IGNORECASE) finds a match, for p = r'7\s+referenten broj\s+[\w\d]+/\d{4}'
search_ignorecase_7_s_referenten_broj_s_w(p, s) ==
    /\ p = "7\\s+referenten broj\\s+[\\w\\d]+/\\d{4}"
    /\ s \in {"7 REFERENTEN BROJ 1/2026", "7 referenten broj 1/2026"}

\* s.isdigit()
isdigit(s) ==
    s \in {"0", "00", "00000", "000000", "002031", "005263", "0052639", "02", "025380",
          "0253804", "05", "052639", "1", "10", "1000", "12", "120", "1200", "123",
          "1230", "1234", "123456", "12345678", "14", "15", "17", "19", "2", "20",
          "2031", "21", "24", "29", "3", "33", "34", "341", "35", "4", "40", "403099",
          "4030990253804", "44", "46", "5", "50", "5007", "5010", "5016", "52",
          "52639", "7", "71", "71210", "78", "8", "87", "876543", "87654321", "9",
          "<sup2>"}

\* int(s) raises ValueError
int_raises(s) ==
    s \in {"", " 5016-0052639", " S", " SKOPJE", " Skopje", " s", " skopje", "-", "-B",
          "-BROJ", "-Broj", "-b", "-broj", ".", "1 EXMK 341", "1 exmk 341", "1,", "1.",
          "1/", "1/2026", "120,5", "120.5", "14 CONSIGNOR/EXPORTER",
          "14 Consignor/Exporter", "14 consignor/exporter", "15 SHIFRA NA ZEMJA",
          "15 Shifra na zemja", "15 shifra na zemja", "17 ZEMJA NA NAMENA",
          "17 Zemja na namena", "17 zemja na namena", "1D", "1d",
          "2 CONSIGNOR/EXPORTER", "2 CONSIGNOR/EXPORTER NO", "2 Consignor/Exporter",
          "2 Consignor/Exporter No", "2 consignor/exporter", "2 consignor/exporter no",
          "2 ISPRAKJACH/IZVOZNIK", "2 Isprakjach/Izvoznik", "2 isprakjach/izvoznik",
          "24MK001", "24mk001", "29 IZLEZEN CARINSKI ORGAN",
          "29 Izlezen carinski organ", "29 izlezen carinski organ",
          "33 TARIFNA OZNAKA", "33 Tarifna oznaka", "33 tarifna oznaka",
          "35 BRUTO MASA", "35 Bruto masa", "35 bruto masa",
          "44 DOPOLNITELNI INFORMACII", "44 Dopolnitelni informacii",
          "44 dopolnitelni informacii", "46 STATISTICHKA VREDNOST",
          "46 Statistichka vrednost", "46 statistichka vrednost", "5007(9)",
          "5010(123)", "5010(123) 5010(123)", "5016(0052639)", "5016(0052639) 5007(9)",
          "5016-0052639", "5016-0052639 5016-0052639", "7 REFERENTEN BROJ 1/2026",
          "7 referenten broj 1/2026", "8 PRIMACH", "8 Primach", "8 primach",
          "9 5016-0052639", "9)", "9) 5007(9)", ":", "A", "A ", "A MK", "AU", "AUN",
          "AUN-MK19/2024", "AUN-MK19/2024,", "AUN-MK19/2024, 5016-0052639",
          "AUN-MK19/2024.", "AUN-MK19/2024. 5016-0052639", "BA", "BASE",
          "BASE FIC 00000 ST.EUSEBE", "BASE FIC 00000 St.Eusebe",
          "BASE FIC 71210 ST.EUSEBE", "BASE FIC 71210 St.Eusebe", "CO",
          "CONSIGNOR/EXPORTER", "CONSIGNOR/EXPORTER TOV.LIST", "CP", "CPT", "Co",
          "Consignor/Exporter", "Consignor/Exporter tov.list", "EU", "EUR", "EX",
          "EXMK", "FI", "FIC", "FR", "FR 1", "FRANCE", "FREYSSINET", "FREYSSINET SAS",
          "KG", "KGM", "LR", "LRN", "LRN : 24MK001", "MK", "MK002031",
          "MK002031 TABANOVCE", "MK19/2024", "MK4030990253804", "NO", "No", "PX", "SA",
          "SAS", "SI", "SK", "SK1234AB", "SK1234AB FR 1", "SK1234AB/SK5678CD", "ST",
          "ST.EUSEBE", "St", "St.Eusebe", "ZZ", "a", "a ", "a MK", "a mk", "au", "aun",
          "aun-mk19/2024", "aun-mk19/2024,", "aun-mk19/2024, 5016-0052639",
          "aun-mk19/2024.", "aun-mk19/2024. 5016-0052639", "ba", "base",
          "base fic 00000 st.eusebe", "base fic 71210 st.eusebe", "co",
          "consignor/exporter", "consignor/exporter tov.list", "cp", "cpt", "eu",
          "eur", "ex", "exmk", "fi", "fic", "fr", "fr 1", "france", "freyssinet",
          "freyssinet sas", "kg", "kgm", "lr", "lrn", "lrn : 24mk001", "mk",
          "mk002031", "mk002031 tabanovce", "mk19/2024", "mk4030990253804", "no", "px",
          "sa", "sas", "si", "sk", "sk1234ab", "sk1234ab fr 1", "sk1234ab/sk5678cd",
          "st", "st.eusebe", "zz", "<sup2>", "A_cyr", "BI", "BILESHA", "BILESHA 50",
          "BILESHA 50 1000", "BR", "BROJ", "BROEVI", "BRUTO", "BRUTO MASA", "Bi",
          "Bilesha", "Bilesha 50", "Bilesha 50 1000", "Br", "Broj", "Bruto",
          "Bruto masa", "VE", "VENTIL-1", "VENTIL-1  KOM.", "VENTIL-1KOM.", "VZ",
          "VZAEMNO", "VZAEMNO OPREDELENO", "VZAEMNO OPREDELENO-24-ZZ",
          "VZAEMNO OPREDELENO-24-ZZ PALETA-14-PX", "VI", "VID",
          "VID NA TRANSPORT NA GRANICA", "VR", "VREDNOST", "Ve", "Ventil-1",
          "Ventil-1  kom.", "Ventil-1kom.", "Vz", "Vzaemno", "Vzaemno opredeleno",
          "Vzaemno opredeleno-24-ZZ", "Vzaemno opredeleno-24-ZZ Paleta-14-PX", "Vi",
          "Vid", "Vid na transport na granica", "GR", "GRANICA", "DE", "DELOVI",
          "DELOVI ZA MASHINI", "DO", "DOMZHALE", "DOO", "DOOEL", "DOPOLNITELNI", "De",
          "Delovi", "Delovi za mashini", "Do", "Dopolnitelni", "EC", "ECD", "ZA", "ZE",
          "ZEMJA", "Ze", "Zemja", "I", "IZ", "IZLEZEN", "IN", "INFORMACII", "IS",
          "ISPRAKJACH/IZVOZNIK", "Iz", "Izlezen", "Is", "Isprakjach/Izvoznik", "KO",
          "KOM.", "KONTEJNER", "MA", "MAKEDONIJA", "MASA", "MASHINI", "MI",
          "MIKLOSHICHEVA", "MIKLOSHICHEVA ULICA 1D DOMZHALE",
          "MIKLOSHICHEVA ULICA 1D DOMZHALE 00000", "NA", "NAMENA", "NE", "Ne", "OZ",
          "OZNAKA", "OZNAKI", "OZNAKI I BROEVI - BROJ NA KONTEJNER",
          "OZNAKI I BROEVI -BROJ NA KONTEJNER", "OP", "OPREDELENO", "OPREDELENO-24-ZZ",
          "OR", "ORGAN", "Oz", "Oznaki", "Oznaki i broevi - Broj na kontejner",
          "Oznaki i broevi -Broj na kontejner", "PA_cyr", "PALETA", "PALETA-14-PX",
          "PARTIZANSKA", "PR", "PRIMACH", "PRIMACH DOO", "Pa", "Paleta",
          "Paleta-14-PX", "Partizanska", "Pr", "Primach", "RB", "RBD", "RBD 12", "RD",
          "RDB", "RDB 5", "RDB:", "RE", "REFERENTEN", "S", "SE", "SEVERNA",
          "SEVERNA MAKEDONIJA", "SK_cyr", "SKOPJE", "ST_cyr", "STATISTICHKA", "Sk",
          "Skopje", "St_cyr", "Statistichka", "TA", "TABANOVCE", "TABANOVCE-PATN.",
          "TARIFNA", "TO", "TOV.LIST", "TOV.LIST 123", "TR", "TRANSPORT", "Ta",
          "Tarifna", "UL", "UL.", "UL. PARTIZANSKA 1, SKOPJE",
          "UL. PARTIZANSKA 1. SKOPJE", "ULICA", "ULICA 1D DOMZHALE",
          "ULICA 1D DOMZHALE 000000", "ULICA 1D DOMZHALE 1230", "FI_cyr", "FIRMA",
          "FIRMA DOOEL", "FR_cyr", "FRANCIJA", "FRANCIJA FR", "CA", "CARINSKI", "SHI",
          "SHIFRA", "Shi", "Shifra", "a_cyr", "bi", "bilesha", "bilesha 50",
          "bilesha 50 1000", "br", "broevi", "broj", "bruto", "bruto masa", "ve",
          "ventil-1", "ventil-1  kom.", "ventil-1kom.", "vz", "vzaemno",
          "vzaemno opredeleno", "vzaemno opredeleno-24-zz",
          "vzaemno opredeleno-24-zz paleta-14-px", "vi", "vid",
          "vid na transport na granica", "vr", "vrednost", "gr", "granica", "de",
          "delovi", "delovi za mashini", "do", "domzhale", "doo", "dooel",
          "dopolnitelni", "ec", "ecd", "za", "ze", "zemja", "i", "iz", "izlezen", "in",
          "informacii", "is", "isprakjach/izvoznik", "ko", "kom.", "kontejner", "ma",
          "makedonija", "masa", "mashini", "mi", "mikloshicheva",
          "mikloshicheva ulica 1d domzhale", "mikloshicheva ulica 1d domzhale 00000",
          "na", "namena", "ne", "oz", "oznaka", "oznaki",
          "oznaki i broevi - broj na kontejner", "oznaki i broevi -broj na kontejner",
          "op", "opredeleno", "opredeleno-24-ZZ", "opredeleno-24-zz", "or", "organ",
          "pa", "paleta", "paleta-14-px", "partizanska", "pr", "primach",
          "primach doo", "rb", "rbd", "rbd 12", "rd", "rdb", "rdb 5", "rdb:", "re",
          "referenten", "s", "se", "severna", "severna makedonija", "sk_cyr", "skopje",
          "st_cyr", "statistichka", "ta", "tabanovce", "tabanovce-patn.", "tarifna",
          "to", "tov.list", "tov.list 123", "tr", "transport", "ul", "ul.",
          "ul. Partizanska 1, Skopje", "ul. Partizanska 1. Skopje",
          "ul. partizanska 1, skopje", "ul. partizanska 1. skopje", "ulica",
          "ulica 1d domzhale", "ulica 1d domzhale 000000", "ulica 1d domzhale 1230",
          "fi_cyr", "firma", "firma dooel", "fr_cyr", "francija", "francija fr", "ca",
          "carinski", "shi", "shifra"}

\* any(ord(c) >= 1040 and ord(c) <= 1103 for c in s)
has_cyrillic(s) ==
    s \in {" S", " SKOPJE", " Skopje", " s", " skopje", "-B", "-BROJ", "-Broj", "-b",
          "-broj", "15 SHIFRA NA ZEMJA", "15 Shifra na zemja", "15 shifra na zemja",
          "17 ZEMJA NA NAMENA", "17 Zemja na namena", "17 zemja na namena", "1D", "1d",
          "2 ISPRAKJACH/IZVOZNIK", "2 Isprakjach/Izvoznik", "2 isprakjach/izvoznik",
          "29 IZLEZEN CARINSKI ORGAN", "29 Izlezen carinski organ",
          "29 izlezen carinski organ", "33 TARIFNA OZNAKA", "33 Tarifna oznaka",
          "33 tarifna oznaka", "35 BRUTO MASA", "35 Bruto masa", "35 bruto masa",
          "44 DOPOLNITELNI INFORMACII", "44 Dopolnitelni informacii",
          "44 dopolnitelni informacii", "46 STATISTICHKA VREDNOST",
          "46 Statistichka vrednost", "46 statistichka vrednost",
          "7 REFERENTEN BROJ 1/2026", "7 referenten broj 1/2026", "8 PRIMACH",
          "8 Primach", "8 primach", "CONSIGNOR/EXPORTER TOV.LIST",
          "Consignor/Exporter tov.list", "MK002031 TABANOVCE",
          "consignor/exporter tov.list", "mk002031 tabanovce", "A_cyr", "BI",
          "BILESHA", "BILESHA 50", "BILESHA 50 1000", "BR", "BROJ", "BROEVI", "BRUTO",
          "BRUTO MASA", "Bi", "Bilesha", "Bilesha 50", "Bilesha 50 1000", "Br", "Broj",
          "Bruto", "Bruto masa", "VE", "VENTIL-1", "VENTIL-1  KOM.", "VENTIL-1KOM.",
          "VZ", "VZAEMNO", "VZAEMNO OPREDELENO", "VZAEMNO OPREDELENO-24-ZZ",
          "VZAEMNO OPREDELENO-24-ZZ PALETA-14-PX", "VI", "VID",
          "VID NA TRANSPORT NA GRANICA", "VR", "VREDNOST", "Ve", "Ventil-1",
          "Ventil-1  kom.", "Ventil-1kom.", "Vz", "Vzaemno", "Vzaemno opredeleno",
          "Vzaemno opredeleno-24-ZZ", "Vzaemno opredeleno-24-ZZ Paleta-14-PX", "Vi",
          "Vid", "Vid na transport na granica", "GR", "GRANICA", "DE", "DELOVI",
          "DELOVI ZA MASHINI", "DO", "DOMZHALE", "DOO", "DOOEL", "DOPOLNITELNI", "De",
          "Delovi", "Delovi za mashini", "Do", "Dopolnitelni", "EC", "ECD", "ZA", "ZE",
          "ZEMJA", "Ze", "Zemja", "I", "IZ", "IZLEZEN", "IN", "INFORMACII", "IS",
          "ISPRAKJACH/IZVOZNIK", "Iz", "Izlezen", "Is", "Isprakjach/Izvoznik", "KO",
          "KOM.", "KONTEJNER", "MA", "MAKEDONIJA", "MASA", "MASHINI", "MI",
          "MIKLOSHICHEVA", "MIKLOSHICHEVA ULICA 1D DOMZHALE",
          "MIKLOSHICHEVA ULICA 1D DOMZHALE 00000", "NA", "NAMENA", "NE", "Ne", "OZ",
          "OZNAKA", "OZNAKI", "OZNAKI I BROEVI - BROJ NA KONTEJNER",
          "OZNAKI I BROEVI -BROJ NA KONTEJNER", "OP", "OPREDELENO", "OPREDELENO-24-ZZ",
          "OR", "ORGAN", "Oz", "Oznaki", "Oznaki i broevi - Broj na kontejner",
          "Oznaki i broevi -Broj na kontejner", "PA_cyr", "PALETA", "PALETA-14-PX",
          "PARTIZANSKA", "PR", "PRIMACH", "PRIMACH DOO", "Pa", "Paleta",
          "Paleta-14-PX", "Partizanska", "Pr", "Primach", "RB", "RBD", "RBD 12", "RD",
          "RDB", "RDB 5", "RDB:", "RE", "REFERENTEN", "S", "SE", "SEVERNA",
          "SEVERNA MAKEDONIJA", "SK_cyr", "SKOPJE", "ST_cyr", "STATISTICHKA", "Sk",
          "Skopje", "St_cyr", "Statistichka", "TA", "TABANOVCE", "TABANOVCE-PATN.",
          "TARIFNA", "TO", "TOV.LIST", "TOV.LIST 123", "TR", "TRANSPORT", "Ta",
          "Tarifna", "UL", "UL.", "UL. PARTIZANSKA 1, SKOPJE",
          "UL. PARTIZANSKA 1. SKOPJE", "ULICA", "ULICA 1D DOMZHALE",
          "ULICA 1D DOMZHALE 000000", "ULICA 1D DOMZHALE 1230", "FI_cyr", "FIRMA",
          "FIRMA DOOEL", "FR_cyr", "FRANCIJA", "FRANCIJA FR", "CA", "CARINSKI", "SHI",
          "SHIFRA", "Shi", "Shifra", "a_cyr", "bi", "bilesha", "bilesha 50",
          "bilesha 50 1000", "br", "broevi", "broj", "bruto", "bruto masa", "ve",
          "ventil-1", "ventil-1  kom.", "ventil-1kom.", "vz", "vzaemno",
          "vzaemno opredeleno", "vzaemno opredeleno-24-zz",
          "vzaemno opredeleno-24-zz paleta-14-px", "vi", "vid",
          "vid na transport na granica", "vr", "vrednost", "gr", "granica", "de",
          "delovi", "delovi za mashini", "do", "domzhale", "doo", "dooel",
          "dopolnitelni", "ec", "ecd", "za", "ze", "zemja", "i", "iz", "izlezen", "in",
          "informacii", "is", "isprakjach/izvoznik", "ko", "kom.", "kontejner", "ma",
          "makedonija", "masa", "mashini", "mi", "mikloshicheva",
          "mikloshicheva ulica 1d domzhale", "mikloshicheva ulica 1d domzhale 00000",
          "na", "namena", "ne", "oz", "oznaka", "oznaki",
          "oznaki i broevi - broj na kontejner", "oznaki i broevi -broj na kontejner",
          "op", "opredeleno", "opredeleno-24-ZZ", "opredeleno-24-zz", "or", "organ",
          "pa", "paleta", "paleta-14-px", "partizanska", "pr", "primach",
          "primach doo", "rb", "rbd", "rbd 12", "rd", "rdb", "rdb 5", "rdb:", "re",
          "referenten", "s", "se", "severna", "severna makedonija", "sk_cyr", "skopje",
          "st_cyr", "statistichka", "ta", "tabanovce", "tabanovce-patn.", "tarifna",
          "to", "tov.list", "tov.list 123", "tr", "transport", "ul", "ul.",
          "ul. Partizanska 1, Skopje", "ul. Partizanska 1. Skopje",
          "ul. partizanska 1, skopje", "ul. partizanska 1. skopje", "ulica",
          "ulica 1d domzhale", "ulica 1d domzhale 000000", "ulica 1d domzhale 1230",
          "fi_cyr", "firma", "firma dooel", "fr_cyr", "francija", "francija fr", "ca",
          "carinski", "shi", "shifra"}

\* any(c.isupper() for c in s)
has_upper(s) ==
    s \in {" S", " SKOPJE", " Skopje", "-B", "-BROJ", "-Broj", "1 EXMK 341",
          "14 CONSIGNOR/EXPORTER", "14 Consignor/Exporter", "15 SHIFRA NA ZEMJA",
          "15 Shifra na zemja", "17 ZEMJA NA NAMENA", "17 Zemja na namena", "1D",
          "2 CONSIGNOR/EXPORTER", "2 CONSIGNOR/EXPORTER NO", "2 Consignor/Exporter",
          "2 Consignor/Exporter No", "2 ISPRAKJACH/IZVOZNIK", "2 Isprakjach/Izvoznik",
          "24MK001", "29 IZLEZEN CARINSKI ORGAN", "29 Izlezen carinski organ",
          "33 TARIFNA OZNAKA", "33 Tarifna oznaka", "35 BRUTO MASA", "35 Bruto masa",
          "44 DOPOLNITELNI INFORMACII", "44 Dopolnitelni informacii",
          "46 STATISTICHKA VREDNOST", "46 Statistichka vrednost",
          "7 REFERENTEN BROJ 1/2026", "8 PRIMACH", "8 Primach", "A", "A ", "A MK",
          "AU", "AUN", "AUN-MK19/2024", "AUN-MK19/2024,",
          "AUN-MK19/2024, 5016-0052639", "AUN-MK19/2024.",
          "AUN-MK19/2024. 5016-0052639", "BA", "BASE", "BASE FIC 00000 ST.EUSEBE",
          "BASE FIC 00000 St.Eusebe", "BASE FIC 71210 ST.EUSEBE",
          "BASE FIC 71210 St.Eusebe", "CO", "CONSIGNOR/EXPORTER",
          "CONSIGNOR/EXPORTER TOV.LIST", "CP", "CPT", "Co", "Consignor/Exporter",
          "Consignor/Exporter tov.list", "EU", "EUR", "EX", "EXMK", "FI", "FIC", "FR",
          "FR 1", "FRANCE", "FREYSSINET", "FREYSSINET SAS", "KG", "KGM", "LR", "LRN",
          "LRN : 24MK001", "MK", "MK002031", "MK002031 TABANOVCE", "MK19/2024",
          "MK4030990253804", "NO", "No", "PX", "SA", "SAS", "SI", "SK", "SK1234AB",
          "SK1234AB FR 1", "SK1234AB/SK5678CD", "ST", "ST.EUSEBE", "St", "St.Eusebe",
          "ZZ", "a MK", "A_cyr", "BI", "BILESHA", "BILESHA 50", "BILESHA 50 1000",
          "BR", "BROJ", "BROEVI", "BRUTO", "BRUTO MASA", "Bi", "Bilesha", "Bilesha 50",
          "Bilesha 50 1000", "Br", "Broj", "Bruto", "Bruto masa", "VE", "VENTIL-1",
          "VENTIL-1  KOM.", "VENTIL-1KOM.", "VZ", "VZAEMNO", "VZAEMNO OPREDELENO",
          "VZAEMNO OPREDELENO-24-ZZ", "VZAEMNO OPREDELENO-24-ZZ PALETA-14-PX", "VI",
          "VID", "VID NA TRANSPORT NA GRANICA", "VR", "VREDNOST", "Ve", "Ventil-1",
          "Ventil-1  kom.", "Ventil-1kom.", "Vz", "Vzaemno", "Vzaemno opredeleno",
          "Vzaemno opredeleno-24-ZZ", "Vzaemno opredeleno-24-ZZ Paleta-14-PX", "Vi",
          "Vid", "Vid na transport na granica", "GR", "GRANICA", "DE", "DELOVI",
          "DELOVI ZA MASHINI", "DO", "DOMZHALE", "DOO", "DOOEL", "DOPOLNITELNI", "De",
          "Delovi", "Delovi za mashini", "Do", "Dopolnitelni", "EC", "ECD", "ZA", "ZE",
          "ZEMJA", "Ze", "Zemja", "I", "IZ", "IZLEZEN", "IN", "INFORMACII", "IS",
          "ISPRAKJACH/IZVOZNIK", "Iz", "Izlezen", "Is", "Isprakjach/Izvoznik", "KO",
          "KOM.", "KONTEJNER", "MA", "MAKEDONIJA", "MASA", "MASHINI", "MI",
          "MIKLOSHICHEVA", "MIKLOSHICHEVA ULICA 1D DOMZHALE",
          "MIKLOSHICHEVA ULICA 1D DOMZHALE 00000", "NA", "NAMENA", "NE", "Ne", "OZ",
          "OZNAKA", "OZNAKI", "OZNAKI I BROEVI - BROJ NA KONTEJNER",
          "OZNAKI I BROEVI -BROJ NA KONTEJNER", "OP", "OPREDELENO", "OPREDELENO-24-ZZ",
          "OR", "ORGAN", "Oz", "Oznaki", "Oznaki i broevi - Broj na kontejner",
          "Oznaki i broevi -Broj na kontejner", "PA_cyr", "PALETA", "PALETA-14-PX",
          "PARTIZANSKA", "PR", "PRIMACH", "PRIMACH DOO", "Pa", "Paleta",
          "Paleta-14-PX", "Partizanska", "Pr", "Primach", "RB", "RBD", "RBD 12", "RD",
          "RDB", "RDB 5", "RDB:", "RE", "REFERENTEN", "S", "SE", "SEVERNA",
          "SEVERNA MAKEDONIJA", "SK_cyr", "SKOPJE", "ST_cyr", "STATISTICHKA", "Sk",
          "Skopje", "St_cyr", "Statistichka", "TA", "TABANOVCE", "TABANOVCE-PATN.",
          "TARIFNA", "TO", "TOV.LIST", "TOV.LIST 123", "TR", "TRANSPORT", "Ta",
          "Tarifna", "UL", "UL.", "UL. PARTIZANSKA 1, SKOPJE",
          "UL. PARTIZANSKA 1. SKOPJE", "ULICA", "ULICA 1D DOMZHALE",
          "ULICA 1D DOMZHALE 000000", "ULICA 1D DOMZHALE 1230", "FI_cyr", "FIRMA",
          "FIRMA DOOEL", "FR_cyr", "FRANCIJA", "FRANCIJA FR", "CA", "CARINSKI", "SHI",
          "SHIFRA", "Shi", "Shifra", "opredeleno-24-ZZ", "ul. Partizanska 1, Skopje",
          "ul. Partizanska 1. Skopje"}

\* re.search(p, s).group(k), or "" when there is no match or the group is None, for p = r'(MK)?(\d{6})', for k = 2
group_MK_d_6_2(p, k, s) ==
    IF p = "(MK)?(\\d{6})" /\ k = 2
    THEN CASE s = " 5016-0052639" -> "005263"
           [] s = "000000" -> "000000"
           [] s = "002031" -> "002031"
           [] s = "005263" -> "005263"
           [] s = "0052639" -> "005263"
           [] s = "025380" -> "025380"
           [] s = "0253804" -> "025380"
           [] s = "052639" -> "052639"
           [] s = "123456" -> "123456"
           [] s = "12345678" -> "123456"
           [] s = "12345678 " -> "123456"
           [] s = "403099" -> "403099"
           [] s = "4030990253804" -> "403099"
           [] s = "5016(0052639)" -> "005263"
           [] s = "5016(0052639) 5007(9)" -> "005263"
           [] s = "5016-0052639" -> "005263"
           [] s = "5016-0052639 5016-0052639" -> "005263"
           [] s = "876543" -> "876543"
           [] s = "87654321" -> "876543"
           [] s = "9 5016-0052639" -> "005263"
           [] s = "AUN-MK19/2024, 5016-0052639" -> "005263"
           [] s = "AUN-MK19/2024. 5016-0052639" -> "005263"
           [] s = "MK002031" -> "002031"
           [] s = "MK002031 TABANOVCE" -> "002031"
           [] s = "MK4030990253804" -> "403099"
           [] s = "aun-mk19/2024, 5016-0052639" -> "005263"
           [] s = "aun-mk19/2024. 5016-0052639" -> "005263"
           [] s = "mk002031" -> "002031"
           [] s = "mk002031 tabanovce" -> "002031"
           [] s = "mk4030990253804" -> "403099"
           [] s = "ULICA 1D DOMZHALE 000000" -> "000000"
           [] s = "ulica 1d domzhale 000000" -> "000000"
           [] OTHER -> ""
    ELSE ""

\* re.search(p, s).group(k), or "" when there is no match or the group is None, for p = r'([A-Z]{2}\d{13})', for k = 1
group_A_Z_2_d_13_1(p, k, s) ==
    IF p = "([A-Z]{2}\\d{13})" /\ k = 1
    THEN CASE s = "MK4030990253804" -> "MK4030990253804"
           [] OTHER -> ""
    ELSE ""

\* re.search(p, s).group(k), or "" when there is no match or the group is None, for p = r'([A-Z]{2}\d{4}[A-Z]{2}(?:/[A-Z]{2}\d{4}[A-Z]{2})?)', for k = 1
group_A_Z_2_d_4_A_Z_2_A_Z_2_d(p, k, s) ==
    IF p = "([A-Z]{2}\\d{4}[A-Z]{2}(?:/[A-Z]{2}\\d{4}[A-Z]{2})?)" /\ k = 1
    THEN CASE s = "SK1234AB" -> "SK1234AB"
           [] s = "SK1234AB FR 1" -> "SK1234AB"
           [] s = "SK1234AB/SK5678CD" -> "SK1234AB/SK5678CD"
           [] OTHER -> ""
    ELSE ""

\* re.search(p, s).group(k), or "" when there is no match or the group is None, for p = r'(\d+\.?\d*)', for k = 1
group_d_d_1(p, k, s) ==
    IF p = "(\\d+\\.?\\d*)" /\ k = 1
    THEN CASE s = " 5" -> "5"
           [] s = " 5016-0052639" -> "5016"
           [] s = "0" -> "0"
           [] s = "00" -> "00"
           [] s = "00000" -> "00000"
           [] s = "000000" -> "000000"
           [] s = "002031" -> "002031"
           [] s = "005263" -> "005263"
           [] s = "0052639" -> "0052639"
           [] s = "02" -> "02"
           [] s = "025380" -> "025380"
           [] s = "0253804" -> "0253804"
           [] s = "05" -> "05"
           [] s = "052639" -> "052639"
           [] s = "1" -> "1"
           [] s = "1 " -> "1"
           [] s = "1 EXMK 341" -> "1"
           [] s = "1 exmk 341" -> "1"
           [] s = "1," -> "1"
           [] s = "1." -> "1."
           [] s = "1/" -> "1"
           [] s = "1/2026" -> "1"
           [] s = "10" -> "10"
           [] s = "1000" -> "1000"
           [] s = "12" -> "12"
           [] s = "120" -> "120"
           [] s = "120,5" -> "120"
           [] s = "120.5" -> "120.5"
           [] s = "1200" -> "1200"
           [] s = "123" -> "123"
           [] s = "1230" -> "1230"
           [] s = "1234" -> "1234"
           [] s = "123456" -> "123456"
           [] s = "12345678" -> "12345678"
           [] s = "12345678 " -> "12345678"
           [] s = "14" -> "14"
           [] s = "14 CONSIGNOR/EXPORTER" -> "14"
           [] s = "14 Consignor/Exporter" -> "14"
           [] s = "14 consignor/exporter" -> "14"
           [] s = "15" -> "15"
           [] s = "15 SHIFRA NA ZEMJA" -> "15"
           [] s = "15 Shifra na zemja" -> "15"
           [] s = "15 shifra na zemja" -> "15"
           [] s = "17" -> "17"
           [] s = "17 ZEMJA NA NAMENA" -> "17"
           [] s = "17 Zemja na namena" -> "17"
           [] s = "17 zemja na namena" -> "17"
           [] s = "19" -> "19"
           [] s = "1D" -> "1"
           [] s = "1d" -> "1"
           [] s = "2" -> "2"
           [] s = "2 " -> "2"
           [] s = "2 CONSIGNOR/EXPORTER" -> "2"
           [] s = "2 CONSIGNOR/EXPORTER NO" -> "2"
           [] s = "2 Consignor/Exporter" -> "2"
           [] s = "2 Consignor/Exporter No" -> "2"
           [] s = "2 consignor/exporter" -> "2"
           [] s = "2 consignor/exporter no" -> "2"
           [] s = "2 ISPRAKJACH/IZVOZNIK" -> "2"
           [] s = "2 Isprakjach/Izvoznik" -> "2"
           [] s = "2 isprakjach/izvoznik" -> "2"
           [] s = "20" -> "20"
           [] s = "2031" -> "2031"
           [] s = "21" -> "21"
           [] s = "24" -> "24"
           [] s = "24MK001" -> "24"
           [] s = "24mk001" -> "24"
           [] s = "29" -> "29"
           [] s = "29 IZLEZEN CARINSKI ORGAN" -> "29"
           [] s = "29 Izlezen carinski organ" -> "29"
           [] s = "29 izlezen carinski organ" -> "29"
           [] s = "3" -> "3"
           [] s = "33" -> "33"
           [] s = "33 TARIFNA OZNAKA" -> "33"
           [] s = "33 Tarifna oznaka" -> "33"
           [] s = "33 tarifna oznaka" -> "33"
           [] s = "34" -> "34"
           [] s = "341" -> "341"
           [] s = "35" -> "35"
           [] s = "35 BRUTO MASA" -> "35"
           [] s = "35 Bruto masa" -> "35"
           [] s = "35 bruto masa" -> "35"
           [] s = "4" -> "4"
           [] s = "40" -> "40"
           [] s = "403099" -> "403099"
           [] s = "4030990253804" -> "4030990253804"
           [] s = "44" -> "44"
           [] s = "44 DOPOLNITELNI INFORMACII" -> "44"
           [] s = "44 Dopolnitelni informacii" -> "44"
           [] s = "44 dopolnitelni informacii" -> "44"
           [] s = "46" -> "46"
           [] s = "46 STATISTICHKA VREDNOST" -> "46"
           [] s = "46 Statistichka vrednost" -> "46"
           [] s = "46 statistichka vrednost" -> "46"
           [] s = "5" -> "5"
           [] s = "50" -> "50"
           [] s = "5007" -> "5007"
           [] s = "5007(9)" -> "5007"
           [] s = "5010" -> "5010"
           [] s = "5010(123)" -> "5010"
           [] s = "5010(123) 5010(123)" -> "5010"
           [] s = "5016" -> "5016"
           [] s = "5016(0052639)" -> "5016"
           [] s = "5016(0052639) 5007(9)" -> "5016"
           [] s = "5016-0052639" -> "5016"
           [] s = "5016-0052639 5016-0052639" -> "5016"
           [] s = "52" -> "52"
           [] s = "52639" -> "52639"
           [] s = "7" -> "7"
           [] s = "7 " -> "7"
           [] s = "7 REFERENTEN BROJ 1/2026" -> "7"
           [] s = "7 referenten broj 1/2026" -> "7"
           [] s = "71" -> "71"
           [] s = "71210" -> "71210"
           [] s = "78" -> "78"
           [] s = "8" -> "8"
           [] s = "8 " -> "8"
           [] s = "8 PRIMACH" -> "8"
           [] s = "8 Primach" -> "8"
           [] s = "8 primach" -> "8"
           [] s = "87" -> "87"
           [] s = "876543" -> "876543"
           [] s = "87654321" -> "87654321"
           [] s = "9" -> "9"
           [] s = "9 " -> "9"
           [] s = "9 5016-0052639" -> "9"
           [] s = "9)" -> "9"
           [] s = "9) 5007(9)" -> "9"
           [] s = "AUN-MK19/2024" -> "19"
           [] s = "AUN-MK19/2024," -> "19"
           [] s = "AUN-MK19/2024, 5016-0052639" -> "19"
           [] s = "AUN-MK19/2024." -> "19"
           [] s = "AUN-MK19/2024. 5016-0052639" -> "19"
           [] s = "BASE FIC 00000 ST.EUSEBE" -> "00000"
           [] s = "BASE FIC 00000 St.Eusebe" -> "00000"
           [] s = "BASE FIC 71210 ST.EUSEBE" -> "71210"
           [] s = "BASE FIC 71210 St.Eusebe" -> "71210"
           [] s = "FR 1" -> "1"
           [] s = "LRN : 24MK001" -> "24"
           [] s = "MK002031" -> "002031"
           [] s = "MK002031 TABANOVCE" -> "002031"
           [] s = "MK19/2024" -> "19"
           [] s = "MK4030990253804" -> "4030990253804"
           [] s = "SK1234AB" -> "1234"
           [] s = "SK1234AB FR 1" -> "1234"
           [] s = "SK1234AB/SK5678CD" -> "1234"
           [] s = "aun-mk19/2024" -> "19"
           [] s = "aun-mk19/2024," -> "19"
           [] s = "aun-mk19/2024, 5016-0052639" -> "19"
           [] s = "aun-mk19/2024." -> "19"
           [] s = "aun-mk19/2024. 5016-0052639" -> "19"
           [] s = "base fic 00000 st.eusebe" -> "00000"
           [] s = "base fic 71210 st.eusebe" -> "71210"
           [] s = "fr 1" -> "1"
           [] s = "lrn : 24mk001" -> "24"
           [] s = "mk002031" -> "002031"
           [] s = "mk002031 tabanovce" -> "002031"
           [] s = "mk19/2024" -> "19"
           [] s = "mk4030990253804" -> "4030990253804"
           [] s = "sk1234ab" -> "1234"
           [] s = "sk1234ab fr 1" -> "1234"
           [] s = "sk1234ab/sk5678cd" -> "1234"
           [] s = "BILESHA 50" -> "50"
           [] s = "BILESHA 50 1000" -> "50"
           [] s = "Bilesha 50" -> "50"
           [] s = "Bilesha 50 1000" -> "50"
           [] s = "VENTIL-1" -> "1"
           [] s = "VENTIL-1  KOM." -> "1"
           [] s = "VENTIL-1KOM." -> "1"
           [] s = "VZAEMNO OPREDELENO-24-ZZ" -> "24"
           [] s = "VZAEMNO OPREDELENO-24-ZZ PALETA-14-PX" -> "24"
           [] s = "Ventil-1" -> "1"
           [] s = "Ventil-1  kom." -> "1"
           [] s = "Ventil-1kom." -> "1"
           [] s = "Vzaemno opredeleno-24-ZZ" -> "24"
           [] s = "Vzaemno opredeleno-24-ZZ Paleta-14-PX" -> "24"
           [] s = "MIKLOSHICHEVA ULICA 1D DOMZHALE" -> "1"
           [] s = "MIKLOSHICHEVA ULICA 1D DOMZHALE 00000" -> "1"
           [] s = "OPREDELENO-24-ZZ" -> "24"
           [] s = "PALETA-14-PX" -> "14"
           [] s = "Paleta-14-PX" -> "14"
           [] s = "RBD 12" -> "12"
           [] s = "RDB 5" -> "5"
           [] s = "TOV.LIST 123" -> "123"
           [] s = "UL. PARTIZANSKA 1, SKOPJE" -> "1"
           [] s = "UL. PARTIZANSKA 1. SKOPJE" -> "1."
           [] s = "ULICA 1D DOMZHALE" -> "1"
           [] s = "ULICA 1D DOMZHALE 000000" -> "1"
           [] s = "ULICA 1D DOMZHALE 1230" -> "1"
           [] s = "bilesha 50" -> "50"
           [] s = "bilesha 50 1000" -> "50"
           [] s = "ventil-1" -> "1"
           [] s = "ventil-1  kom." -> "1"
           [] s = "ventil-1kom." -> "1"
           [] s = "vzaemno opredeleno-24-zz" -> "24"
           [] s = "vzaemno opredeleno-24-zz paleta-14-px" -> "24"
           [] s = "mikloshicheva ulica 1d domzhale" -> "1"
           [] s = "mikloshicheva ulica 1d domzhale 00000" -> "1"
           [] s = "opredeleno-24-ZZ" -> "24"
           [] s = "opredeleno-24-zz" -> "24"
           [] s = "paleta-14-px" -> "14"
           [] s = "rbd 12" -> "12"
           [] s = "rdb 5" -> "5"
           [] s = "tov.list 123" -> "123"
           [] s = "ul. Partizanska 1, Skopje" -> "1"
           [] s = "ul. Partizanska 1. Skopje" -> "1."
           [] s = "ul. partizanska 1, skopje" -> "1"
           [] s = "ul. partizanska 1. skopje" -> "1."
           [] s = "ulica 1d domzhale" -> "1"
           [] s = "ulica 1d domzhale 000000" -> "1"
           [] s = "ulica 1d domzhale 1230" -> "1"
           [] OTHER -> ""
    ELSE ""

\* re.search(p, s).group(k), or "" when there is no match or the group is None, for p = r'(\d{4,6})\s+([^\n]+)$', for k = 1
group_d_4_6_s_n_1(p, k, s) ==
    IF p = "(\\d{4,6})\\s+([^\\n]+)$" /\ k = 1
    THEN CASE s = "5016-0052639 5016-0052639" -> "052639"
           [] s = "BASE FIC 00000 ST.EUSEBE" -> "00000"
           [] s = "BASE FIC 00000 St.Eusebe" -> "00000"
           [] s = "BASE FIC 71210 ST.EUSEBE" -> "71210"
           [] s = "BASE FIC 71210 St.Eusebe" -> "71210"
           [] s = "MK002031 TABANOVCE" -> "002031"
           [] s = "base fic 00000 st.eusebe" -> "00000"
           [] s = "base fic 71210 st.eusebe" -> "71210"
           [] s = "mk002031 tabanovce" -> "002031"
           [] OTHER -> ""
    ELSE ""

\* re.search(p, s).group(k), or "" when there is no match or the group is None, for p = r'(\d{4,6})\s+([^\n]+)$', for k = 2
group_d_4_6_s_n_2(p, k, s) ==
    IF p = "(\\d{4,6})\\s+([^\\n]+)$" /\ k = 2
    THEN CASE s = "5016-0052639 5016-0052639" -> "5016-0052639"
           [] s = "BASE FIC 00000 ST.EUSEBE" -> "ST.EUSEBE"
           [] s = "BASE FIC 00000 St.Eusebe" -> "St.Eusebe"
           [] s = "BASE FIC 71210 ST.EUSEBE" -> "ST.EUSEBE"
           [] s = "BASE FIC 71210 St.Eusebe" -> "St.Eusebe"
           [] s = "MK002031 TABANOVCE" -> "TABANOVCE"
           [] s = "base fic 00000 st.eusebe" -> "st.eusebe"
           [] s = "base fic 71210 st.eusebe" -> "st.eusebe"
           [] s = "mk002031 tabanovce" -> "tabanovce"
           [] OTHER -> ""
    ELSE ""

\* re.search(p, s).group(k), or "" when there is no match or the group is None, for p = r'(Paleta|Karton|Kutija|Sandak|Vreka|Kontejner)-(\d+)-([A-Z]{2})', for k = 2
group_Paleta_Karton_Kutija_San(p, k, s) ==
    IF p = "(Paleta|Karton|Kutija|Sandak|Vreka|Kontejner)-(\\d+)-([A-Z]{2})" /\ k = 2
    THEN CASE s = "Vzaemno opredeleno-24-ZZ Paleta-14-PX" -> "14"
           [] s = "Paleta-14-PX" -> "14"
           [] OTHER -> ""
    ELSE ""

\* re.search(p, s).group(k), or "" when there is no match or the group is None, for p = r'(Paleta|Karton|Kutija|Sandak|Vreka|Kontejner)-(\d+)-([A-Z]{2})', for k = 3
group_Paleta_Karton_Kutija_San_2(p, k, s) ==
    IF p = "(Paleta|Karton|Kutija|Sandak|Vreka|Kontejner)-(\\d+)-([A-Z]{2})" /\ k = 3
    THEN CASE s = "Vzaemno opredeleno-24-ZZ Paleta-14-PX" -> "PX"
           [] s = "Paleta-14-PX" -> "PX"
           [] OTHER -> ""
    ELSE ""

\* re.search(p, s).group(k), or "" when there is no match or the group is None, for p = r'\b([A-Z]{2})\b', for k = 1
group_b_A_Z_2_b_1(p, k, s) ==
    IF p = "\\b([A-Z]{2})\\b" /\ k = 1
    THEN CASE s = "2 CONSIGNOR/EXPORTER NO" -> "NO"
           [] s = "A MK" -> "MK"
           [] s = "AU" -> "AU"
           [] s = "BA" -> "BA"
           [] s = "BASE FIC 00000 ST.EUSEBE" -> "ST"
           [] s = "BASE FIC 71210 ST.EUSEBE" -> "ST"
           [] s = "CO" -> "CO"
           [] s = "CP" -> "CP"
           [] s = "EU" -> "EU"
           [] s = "EX" -> "EX"
           [] s = "FI" -> "FI"
           [] s = "FR" -> "FR"
           [] s = "FR 1" -> "FR"
           [] s = "KG" -> "KG"
           [] s = "LR" -> "LR"
           [] s = "MK" -> "MK"
           [] s = "NO" -> "NO"
           [] s = "PX" -> "PX"
           [] s = "SA" -> "SA"
           [] s = "SI" -> "SI"
           [] s = "SK" -> "SK"
           [] s = "SK1234AB FR 1" -> "FR"
           [] s = "ST" -> "ST"
           [] s = "ST.EUSEBE" -> "ST"
           [] s = "ZZ" -> "ZZ"
           [] s = "a MK" -> "MK"
           [] s = "VZAEMNO OPREDELENO-24-ZZ" -> "ZZ"
           [] s = "VZAEMNO OPREDELENO-24-ZZ PALETA-14-PX" -> "ZZ"
           [] s = "Vzaemno opredeleno-24-ZZ" -> "ZZ"
           [] s = "Vzaemno opredeleno-24-ZZ Paleta-14-PX" -> "ZZ"
           [] s = "OPREDELENO-24-ZZ" -> "ZZ"
           [] s = "PALETA-14-PX" -> "PX"
           [] s = "Paleta-14-PX" -> "PX"
           [] s = "FRANCIJA FR" -> "FR"
           [] s = "opredeleno-24-ZZ" -> "ZZ"
           [] OTHER -> ""
    ELSE ""

\* re.search(p, s).group(k), or "" when there is no match or the group is None, for p = r'\b(\d{8})\b', for k = 1
group_b_d_8_b_1(p, k, s) ==
    IF p = "\\b(\\d{8})\\b" /\ k = 1
    THEN CASE s = "12345678" -> "12345678"
           [] s = "12345678 " -> "12345678"
           [] s = "87654321" -> "87654321"
           [] OTHER -> ""
    ELSE ""

\* re.search(p, s).group(k), or "" when there is no match or the group is None, for p = r'\s(\d{4,5})\s*$', for k = 1
group_s_d_4_5_s_1(p, k, s) ==
    IF p = "\\s(\\d{4,5})\\s*$" /\ k = 1
    THEN CASE s = "BILESHA 50 1000" -> "1000"
           [] s = "Bilesha 50 1000" -> "1000"
           [] s = "MIKLOSHICHEVA ULICA 1D DOMZHALE 00000" -> "00000"
           [] s = "ULICA 1D DOMZHALE 1230" -> "1230"
           [] s = "bilesha 50 1000" -> "1000"
           [] s = "mikloshicheva ulica 1d domzhale 00000" -> "00000"
           [] s = "ulica 1d domzhale 1230" -> "1230"
           [] OTHER -> ""
    ELSE ""

\* re.search(p, s).group(k), or "" when there is no match or the group is None, for p = r'\s(\d{4,6})\s*$', for k = 1
group_s_d_4_6_s_1(p, k, s) ==
    IF p = "\\s(\\d{4,6})\\s*$" /\ k = 1
    THEN CASE s = "BILESHA 50 1000" -> "1000"
           [] s = "Bilesha 50 1000" -> "1000"
           [] s = "MIKLOSHICHEVA ULICA 1D DOMZHALE 00000" -> "00000"
           [] s = "ULICA 1D DOMZHALE 000000" -> "000000"
           [] s = "ULICA 1D DOMZHALE 1230" -> "1230"
           [] s = "bilesha 50 1000" -> "1000"
           [] s = "mikloshicheva ulica 1d domzhale 00000" -> "00000"
           [] s = "ulica 1d domzhale 000000" -> "000000"
           [] s = "ulica 1d domzhale 1230" -> "1230"
           [] OTHER -> ""
    ELSE ""

\* re.search(p, s).group(k), or "" when there is no match or the group is None, for p = r'^([A-Z]{2})\s', for k = 1
group_A_Z_2_s_1(p, k, s) ==
    IF p = "^([A-Z]{2})\\s" /\ k = 1
    THEN CASE s = "FR 1" -> "FR"
           [] OTHER -> ""
    ELSE ""

\* re.search(p, s).group(k), or "" when there is no match or the group is None, for p = r'^([A-Z]{2}\d{13})$', for k = 1
group_A_Z_2_d_13_1_2(p, k, s) ==
    IF p = "^([A-Z]{2}\\d{13})$" /\ k = 1
    THEN CASE s = "MK4030990253804" -> "MK4030990253804"
           [] OTHER -> ""
    ELSE ""

\* re.search(p, s).group(k), or "" when there is no match or the group is None, for p = r'^([A-Z]{2}\d{4}[A-Z]{2}(?:/[A-Z]{2}\d{4}[A-Z]{2})?)$', for k = 1
group_A_Z_2_d_4_A_Z_2_A_Z_2_d_2(p, k, s) ==
    IF p = "^([A-Z]{2}\\d{4}[A-Z]{2}(?:/[A-Z]{2}\\d{4}[A-Z]{2})?)$" /\ k = 1
    THEN CASE s = "SK1234AB" -> "SK1234AB"
           [] s = "SK1234AB/SK5678CD" -> "SK1234AB/SK5678CD"
           [] OTHER -> ""
    ELSE ""

\* re.search(p, s).group(k), or "" when there is no match or the group is None, for p = r'opredeleno-(\d+)-([A-Z]{2})', for k = 1
group_opredeleno_d_A_Z_2_1(p, k, s) ==
    IF p = "opredeleno-(\\d+)-([A-Z]{2})" /\ k = 1
    THEN CASE s = "Vzaemno opredeleno-24-ZZ" -> "24"
           [] s = "Vzaemno opredeleno-24-ZZ Paleta-14-PX" -> "24"
           [] s = "opredeleno-24-ZZ" -> "24"
           [] OTHER -> ""
    ELSE ""

\* re.search(p, s).group(k), or "" when there is no match or the group is None, for p = r'opredeleno-(\d+)-([A-Z]{2})', for k = 2
group_opredeleno_d_A_Z_2_2(p, k, s) ==
    IF p = "opredeleno-(\\d+)-([A-Z]{2})" /\ k = 2
    THEN CASE s = "Vzaemno opredeleno-24-ZZ" -> "ZZ"
           [] s = "Vzaemno opredeleno-24-ZZ Paleta-14-PX" -> "ZZ"
           [] s = "opredeleno-24-ZZ" -> "ZZ"
           [] OTHER -> ""
    ELSE ""

\* s[m.end():].strip() for the match m of re.search(p, s), for p = r'(MK)?(\d{6})'
rest_MK_d_6(p, s) ==
    IF p = "(MK)?(\\d{6})"
    THEN CASE s = " 5016-0052639" -> "9"
           [] s = "0052639" -> "9"
           [] s = "0253804" -> "4"
           [] s = "12345678" -> "78"
           [] s = "12345678 " -> "78"
           [] s = "4030990253804" -> "0253804"
           [] s = "5016(0052639)" -> "9)"
           [] s = "5016(0052639) 5007(9)" -> "9) 5007(9)"
           [] s = "5016-0052639" -> "9"
           [] s = "5016-0052639 5016-0052639" -> "9 5016-0052639"
           [] s = "87654321" -> "21"
           [] s = "9 5016-0052639" -> "9"
           [] s = "AUN-MK19/2024, 5016-0052639" -> "9"
           [] s = "AUN-MK19/2024. 5016-0052639" -> "9"
           [] s = "MK002031 TABANOVCE" -> "TABANOVCE"
           [] s = "MK4030990253804" -> "0253804"
           [] s = "aun-mk19/2024, 5016-0052639" -> "9"
           [] s = "aun-mk19/2024. 5016-0052639" -> "9"
           [] s = "mk002031 tabanovce" -> "tabanovce"
           [] s = "mk4030990253804" -> "0253804"
           [] OTHER -> ""
    ELSE ""

\* s[m.end():].strip() for the match m of re.search(p, s), for p = r'([A-Z]{2}\d{4}[A-Z]{2}(?:/[A-Z]{2}\d{4}[A-Z]{2})?)'
rest_A_Z_2_d_4_A_Z_2_A_Z_2_d(p, s) ==
    IF p = "([A-Z]{2}\\d{4}[A-Z]{2}(?:/[A-Z]{2}\\d{4}[A-Z]{2})?)"
    THEN CASE s = "SK1234AB FR 1" -> "FR 1"
           [] OTHER -> ""
    ELSE ""

\* s[:m.start()].strip() for the match m of re.search(p, s), for p = r'\s(\d{4,6})\s*$'
before_s_d_4_6_s(p, s) ==
    IF p = "\\s(\\d{4,6})\\s*$"
    THEN CASE s = "BILESHA 50 1000" -> "BILESHA 50"
           [] s = "Bilesha 50 1000" -> "Bilesha 50"
           [] s = "MIKLOSHICHEVA ULICA 1D DOMZHALE 00000" -> "MIKLOSHICHEVA ULICA 1D DOMZHALE"
           [] s = "ULICA 1D DOMZHALE 000000" -> "ULICA 1D DOMZHALE"
           [] s = "ULICA 1D DOMZHALE 1230" -> "ULICA 1D DOMZHALE"
           [] s = "bilesha 50 1000" -> "bilesha 50"
           [] s = "mikloshicheva ulica 1d domzhale 00000" -> "mikloshicheva ulica 1d domzhale"
           [] s = "ulica 1d domzhale 000000" -> "ulica 1d domzhale"
           [] s = "ulica 1d domzhale 1230" -> "ulica 1d domzhale"
           [] OTHER -> ""
    ELSE ""

\* re.sub(p, repl, s), for p = r'-1\s+kom\.', for repl = '-1kom.'
sub_1_s_kom_1kom(p, repl, s) ==
    IF p = "-1\\s+kom\\." /\ repl = "-1kom."
    THEN CASE s = "Ventil-1  kom." -> "Ventil-1kom."
           [] s = "ventil-1  kom." -> "ventil-1kom."
           [] OTHER -> s
    ELSE s

\* re.sub(p, repl, s), for p = r'-\s+', for repl = '-'
sub_s(p, repl, s) ==
    IF p = "-\\s+" /\ repl = "-"
    THEN CASE s = "OZNAKI I BROEVI - BROJ NA KONTEJNER" -> "OZNAKI I BROEVI -BROJ NA KONTEJNER"
           [] s = "Oznaki i broevi - Broj na kontejner" -> "Oznaki i broevi -Broj na kontejner"
           [] s = "oznaki i broevi - broj na kontejner" -> "oznaki i broevi -broj na kontejner"
           [] OTHER -> s
    ELSE s

\* s.strip()
strip(s) ==
    CASE s = " 5" -> "5"
      [] s = " 5016-0052639" -> "5016-0052639"
      [] s = " S" -> "S"
      [] s = " SKOPJE" -> "SKOPJE"
      [] s = " Skopje" -> "Skopje"
      [] s = " s" -> "s"
      [] s = " skopje" -> "skopje"
      [] s = "1 " -> "1"
      [] s = "12345678 " -> "12345678"
      [] s = "2 " -> "2"
      [] s = "7 " -> "7"
      [] s = "8 " -> "8"
      [] s = "9 " -> "9"
      [] s = "A " -> "A"
      [] s = "a " -> "a"
      [] OTHER -> s

\* s.rstrip(chars), for chars = ','
rstrip_1(chars, s) ==
    IF chars = ","
    THEN CASE s = "1," -> "1"
           [] s = "AUN-MK19/2024," -> "AUN-MK19/2024"
           [] s = "aun-mk19/2024," -> "aun-mk19/2024"
           [] OTHER -> s
    ELSE s

\* s.lower()
lower(s) ==
    CASE s = " S" -> " s"
      [] s = " SKOPJE" -> " skopje"
      [] s = " Skopje" -> " skopje"
      [] s = "-B" -> "-b"
      [] s = "-BROJ" -> "-broj"
      [] s = "-Broj" -> "-broj"
      [] s = "1 EXMK 341" -> "1 exmk 341"
      [] s = "14 CONSIGNOR/EXPORTER" -> "14 consignor/exporter"
      [] s = "14 Consignor/Exporter" -> "14 consignor/exporter"
      [] s = "15 SHIFRA NA ZEMJA" -> "15 shifra na zemja"
      [] s = "15 Shifra na zemja" -> "15 shifra na zemja"
      [] s = "17 ZEMJA NA NAMENA" -> "17 zemja na namena"
      [] s = "17 Zemja na namena" -> "17 zemja na namena"
      [] s = "1D" -> "1d"
      [] s = "2 CONSIGNOR/EXPORTER" -> "2 consignor/exporter"
      [] s = "2 CONSIGNOR/EXPORTER NO" -> "2 consignor/exporter no"
      [] s = "2 Consignor/Exporter" -> "2 consignor/exporter"
      [] s = "2 Consignor/Exporter No" -> "2 consignor/exporter no"
      [] s = "2 ISPRAKJACH/IZVOZNIK" -> "2 isprakjach/izvoznik"
      [] s = "2 Isprakjach/Izvoznik" -> "2 isprakjach/izvoznik"
      [] s = "24MK001" -> "24mk001"
      [] s = "29 IZLEZEN CARINSKI ORGAN" -> "29 izlezen carinski organ"
      [] s = "29 Izlezen carinski organ" -> "29 izlezen carinski organ"
      [] s = "33 TARIFNA OZNAKA" -> "33 tarifna oznaka"
      [] s = "33 Tarifna oznaka" -> "33 tarifna oznaka"
      [] s = "35 BRUTO MASA" -> "35 bruto masa"
      [] s = "35 Bruto masa" -> "35 bruto masa"
      [] s = "44 DOPOLNITELNI INFORMACII" -> "44 dopolnitelni informacii"
      [] s = "44 Dopolnitelni informacii" -> "44 dopolnitelni informacii"
      [] s = "46 STATISTICHKA VREDNOST" -> "46 statistichka vrednost"
      [] s = "46 Statistichka vrednost" -> "46 statistichka vrednost"
      [] s = "7 REFERENTEN BROJ 1/2026" -> "7 referenten broj 1/2026"
      [] s = "8 PRIMACH" -> "8 primach"
      [] s = "8 Primach" -> "8 primach"
      [] s = "A" -> "a"
      [] s = "A " -> "a "
      [] s = "A MK" -> "a mk"
      [] s = "AU" -> "au"
      [] s = "AUN" -> "aun"
      [] s = "AUN-MK19/2024" -> "aun-mk19/2024"
      [] s = "AUN-MK19/2024," -> "aun-mk19/2024,"
      [] s = "AUN-MK19/2024, 5016-0052639" -> "aun-mk19/2024, 5016-0052639"
      [] s = "AUN-MK19/2024." -> "aun-mk19/2024."
      [] s = "AUN-MK19/2024. 5016-0052639" -> "aun-mk19/2024. 5016-0052639"
      [] s = "BA" -> "ba"
      [] s = "BASE" -> "base"
      [] s = "BASE FIC 00000 ST.EUSEBE" -> "base fic 00000 st.eusebe"
      [] s = "BASE FIC 00000 St.Eusebe" -> "base fic 00000 st.eusebe"
      [] s = "BASE FIC 71210 ST.EUSEBE" -> "base fic 71210 st.eusebe"
      [] s = "BASE FIC 71210 St.Eusebe" -> "base fic 71210 st.eusebe"
      [] s = "CO" -> "co"
      [] s = "CONSIGNOR/EXPORTER" -> "consignor/exporter"
      [] s = "CONSIGNOR/EXPORTER TOV.LIST" -> "consignor/exporter tov.list"
      [] s = "CP" -> "cp"
      [] s = "CPT" -> "cpt"
      [] s = "Co" -> "co"
      [] s = "Consignor/Exporter" -> "consignor/exporter"
      [] s = "Consignor/Exporter tov.list" -> "consignor/exporter tov.list"
      [] s = "EU" -> "eu"
      [] s = "EUR" -> "eur"
      [] s = "EX" -> "ex"
      [] s = "EXMK" -> "exmk"
      [] s = "FI" -> "fi"
      [] s = "FIC" -> "fic"
      [] s = "FR" -> "fr"
      [] s = "FR 1" -> "fr 1"
      [] s = "FRANCE" -> "france"
      [] s = "FREYSSINET" -> "freyssinet"
      [] s = "FREYSSINET SAS" -> "freyssinet sas"
      [] s = "KG" -> "kg"
      [] s = "KGM" -> "kgm"
      [] s = "LR" -> "lr"
      [] s = "LRN" -> "lrn"
      [] s = "LRN : 24MK001" -> "lrn : 24mk001"
      [] s = "MK" -> "mk"
      [] s = "MK002031" -> "mk002031"
      [] s = "MK002031 TABANOVCE" -> "mk002031 tabanovce"
      [] s = "MK19/2024" -> "mk19/2024"
      [] s = "MK4030990253804" -> "mk4030990253804"
      [] s = "NO" -> "no"
      [] s = "No" -> "no"
      [] s = "PX" -> "px"
      [] s = "SA" -> "sa"
      [] s = "SAS" -> "sas"
      [] s = "SI" -> "si"
      [] s = "SK" -> "sk"
      [] s = "SK1234AB" -> "sk1234ab"
      [] s = "SK1234AB FR 1" -> "sk1234ab fr 1"
      [] s = "SK1234AB/SK5678CD" -> "sk1234ab/sk5678cd"
      [] s = "ST" -> "st"
      [] s = "ST.EUSEBE" -> "st.eusebe"
      [] s = "St" -> "st"
      [] s = "St.Eusebe" -> "st.eusebe"
      [] s = "ZZ" -> "zz"
      [] s = "a MK" -> "a mk"
      [] s = "A_cyr" -> "a_cyr"
      [] s = "BI" -> "bi"
      [] s = "BILESHA" -> "bilesha"
      [] s = "BILESHA 50" -> "bilesha 50"
      [] s = "BILESHA 50 1000" -> "bilesha 50 1000"
      [] s = "BR" -> "br"
      [] s = "BROJ" -> "broj"
      [] s = "BROEVI" -> "broevi"
      [] s = "BRUTO" -> "bruto"
      [] s = "BRUTO MASA" -> "bruto masa"
      [] s = "Bi" -> "bi"
      [] s = "Bilesha" -> "bilesha"
      [] s = "Bilesha 50" -> "bilesha 50"
      [] s = "Bilesha 50 1000" -> "bilesha 50 1000"
      [] s = "Br" -> "br"
      [] s = "Broj" -> "broj"
      [] s = "Bruto" -> "bruto"
      [] s = "Bruto masa" -> "bruto masa"
      [] s = "VE" -> "ve"
      [] s = "VENTIL-1" -> "ventil-1"
      [] s = "VENTIL-1  KOM." -> "ventil-1  kom."
      [] s = "VENTIL-1KOM." -> "ventil-1kom."
      [] s = "VZ" -> "vz"
      [] s = "VZAEMNO" -> "vzaemno"
      [] s = "VZAEMNO OPREDELENO" -> "vzaemno opredeleno"
      [] s = "VZAEMNO OPREDELENO-24-ZZ" -> "vzaemno opredeleno-24-zz"
      [] s = "VZAEMNO OPREDELENO-24-ZZ PALETA-14-PX" -> "vzaemno opredeleno-24-zz paleta-14-px"
      [] s = "VI" -> "vi"
      [] s = "VID" -> "vid"
      [] s = "VID NA TRANSPORT NA GRANICA" -> "vid na transport na granica"
      [] s = "VR" -> "vr"
      [] s = "VREDNOST" -> "vrednost"
      [] s = "Ve" -> "ve"
      [] s = "Ventil-1" -> "ventil-1"
      [] s = "Ventil-1  kom." -> "ventil-1  kom."
      [] s = "Ventil-1kom." -> "ventil-1kom."
      [] s = "Vz" -> "vz"
      [] s = "Vzaemno" -> "vzaemno"
      [] s = "Vzaemno opredeleno" -> "vzaemno opredeleno"
      [] s = "Vzaemno opredeleno-24-ZZ" -> "vzaemno opredeleno-24-zz"
      [] s = "Vzaemno opredeleno-24-ZZ Paleta-14-PX" -> "vzaemno opredeleno-24-zz paleta-14-px"
      [] s = "Vi" -> "vi"
      [] s = "Vid" -> "vid"
      [] s = "Vid na transport na granica" -> "vid na transport na granica"
      [] s = "GR" -> "gr"
      [] s = "GRANICA" -> "granica"
      [] s = "DE" -> "de"
      [] s = "DELOVI" -> "delovi"
      [] s = "DELOVI ZA MASHINI" -> "delovi za mashini"
      [] s = "DO" -> "do"
      [] s = "DOMZHALE" -> "domzhale"
      [] s = "DOO" -> "doo"
      [] s = "DOOEL" -> "dooel"
      [] s = "DOPOLNITELNI" -> "dopolnitelni"
      [] s = "De" -> "de"
      [] s = "Delovi" -> "delovi"
      [] s = "Delovi za mashini" -> "delovi za mashini"
      [] s = "Do" -> "do"
      [] s = "Dopolnitelni" -> "dopolnitelni"
      [] s = "EC" -> "ec"
      [] s = "ECD" -> "ecd"
      [] s = "ZA" -> "za"
      [] s = "ZE" -> "ze"
      [] s = "ZEMJA" -> "zemja"
      [] s = "Ze" -> "ze"
      [] s = "Zemja" -> "zemja"
      [] s = "I" -> "i"
      [] s = "IZ" -> "iz"
      [] s = "IZLEZEN" -> "izlezen"
      [] s = "IN" -> "in"
      [] s = "INFORMACII" -> "informacii"
      [] s = "IS" -> "is"
      [] s = "ISPRAKJACH/IZVOZNIK" -> "isprakjach/izvoznik"
      [] s = "Iz" -> "iz"
      [] s = "Izlezen" -> "izlezen"
      [] s = "Is" -> "is"
      [] s = "Isprakjach/Izvoznik" -> "isprakjach/izvoznik"
      [] s = "KO" -> "ko"
      [] s = "KOM." -> "kom."
      [] s = "KONTEJNER" -> "kontejner"
      [] s = "MA" -> "ma"
      [] s = "MAKEDONIJA" -> "makedonija"
      [] s = "MASA" -> "masa"
      [] s = "MASHINI" -> "mashini"
      [] s = "MI" -> "mi"
      [] s = "MIKLOSHICHEVA" -> "mikloshicheva"
      [] s = "MIKLOSHICHEVA ULICA 1D DOMZHALE" -> "mikloshicheva ulica 1d domzhale"
      [] s = "MIKLOSHICHEVA ULICA 1D DOMZHALE 00000" -> "mikloshicheva ulica 1d domzhale 00000"
      [] s = "NA" -> "na"
      [] s = "NAMENA" -> "namena"
      [] s = "NE" -> "ne"
      [] s = "Ne" -> "ne"
      [] s = "OZ" -> "oz"
      [] s = "OZNAKA" -> "oznaka"
      [] s = "OZNAKI" -> "oznaki"
      [] s = "OZNAKI I BROEVI - BROJ NA KONTEJNER" -> "oznaki i broevi - broj na kontejner"
      [] s = "OZNAKI I BROEVI -BROJ NA KONTEJNER" -> "oznaki i broevi -broj na kontejner"
      [] s = "OP" -> "op"
      [] s = "OPREDELENO" -> "opredeleno"
      [] s = "OPREDELENO-24-ZZ" -> "opredeleno-24-zz"
      [] s = "OR" -> "or"
      [] s = "ORGAN" -> "organ"
      [] s = "Oz" -> "oz"
      [] s = "Oznaki" -> "oznaki"
      [] s = "Oznaki i broevi - Broj na kontejner" -> "oznaki i broevi - broj na kontejner"
      [] s = "Oznaki i broevi -Broj na kontejner" -> "oznaki i broevi -broj na kontejner"
      [] s = "PA_cyr" -> "pa"
      [] s = "PALETA" -> "paleta"
      [] s = "PALETA-14-PX" -> "paleta-14-px"
      [] s = "PARTIZANSKA" -> "partizanska"
      [] s = "PR" -> "pr"
      [] s = "PRIMACH" -> "primach"
      [] s = "PRIMACH DOO" -> "primach doo"
      [] s = "Pa" -> "pa"
      [] s = "Paleta" -> "paleta"
      [] s = "Paleta-14-PX" -> "paleta-14-px"
      [] s = "Partizanska" -> "partizanska"
      [] s = "Pr" -> "pr"
      [] s = "Primach" -> "primach"
      [] s = "RB" -> "rb"
      [] s = "RBD" -> "rbd"
      [] s = "RBD 12" -> "rbd 12"
      [] s = "RD" -> "rd"
      [] s = "RDB" -> "rdb"
      [] s = "RDB 5" -> "rdb 5"
      [] s = "RDB:" -> "rdb:"
      [] s = "RE" -> "re"
      [] s = "REFERENTEN" -> "referenten"
      [] s = "S" -> "s"
      [] s = "SE" -> "se"
      [] s = "SEVERNA" -> "severna"
      [] s = "SEVERNA MAKEDONIJA" -> "severna makedonija"
      [] s = "SK_cyr" -> "sk_cyr"
      [] s = "SKOPJE" -> "skopje"
      [] s = "ST_cyr" -> "st_cyr"
      [] s = "STATISTICHKA" -> "statistichka"
      [] s = "Sk" -> "sk_cyr"
      [] s = "Skopje" -> "skopje"
      [] s = "St_cyr" -> "st_cyr"
      [] s = "Statistichka" -> "statistichka"
      [] s = "TA" -> "ta"
      [] s = "TABANOVCE" -> "tabanovce"
      [] s = "TABANOVCE-PATN." -> "tabanovce-patn."
      [] s = "TARIFNA" -> "tarifna"
      [] s = "TO" -> "to"
      [] s = "TOV.LIST" -> "tov.list"
      [] s = "TOV.LIST 123" -> "tov.list 123"
      [] s = "TR" -> "tr"
      [] s = "TRANSPORT" -> "transport"
      [] s = "Ta" -> "ta"
      [] s = "Tarifna" -> "tarifna"
      [] s = "UL" -> "ul"
      [] s = "UL." -> "ul."
      [] s = "UL. PARTIZANSKA 1, SKOPJE" -> "ul. partizanska 1, skopje"
      [] s = "UL. PARTIZANSKA 1. SKOPJE" -> "ul. partizanska 1. skopje"
      [] s = "ULICA" -> "ulica"
      [] s = "ULICA 1D DOMZHALE" -> "ulica 1d domzhale"
      [] s = "ULICA 1D DOMZHALE 000000" -> "ulica 1d domzhale 000000"
      [] s = "ULICA 1D DOMZHALE 1230" -> "ulica 1d domzhale 1230"
      [] s = "FI_cyr" -> "fi_cyr"
      [] s = "FIRMA" -> "firma"
      [] s = "FIRMA DOOEL" -> "firma dooel"
      [] s = "FR_cyr" -> "fr_cyr"
      [] s = "FRANCIJA" -> "francija"
      [] s = "FRANCIJA FR" -> "francija fr"
      [] s = "CA" -> "ca"
      [] s = "CARINSKI" -> "carinski"
      [] s = "SHI" -> "shi"
      [] s = "SHIFRA" -> "shifra"
      [] s = "Shi" -> "shi"
      [] s = "Shifra" -> "shifra"
      [] s = "opredeleno-24-ZZ" -> "opredeleno-24-zz"
      [] s = "ul. Partizanska 1, Skopje" -> "ul. partizanska 1, skopje"
      [] s = "ul. Partizanska 1. Skopje" -> "ul. partizanska 1. skopje"
      [] OTHER -> s

\* s.upper()
upper(s) ==
    CASE s = " Skopje" -> " SKOPJE"
      [] s = " s" -> " S"
      [] s = " skopje" -> " SKOPJE"
      [] s = "-Broj" -> "-BROJ"
      [] s = "-b" -> "-B"
      [] s = "-broj" -> "-BROJ"
      [] s = "1 exmk 341" -> "1 EXMK 341"
      [] s = "14 Consignor/Exporter" -> "14 CONSIGNOR/EXPORTER"
      [] s = "14 consignor/exporter" -> "14 CONSIGNOR/EXPORTER"
      [] s = "15 Shifra na zemja" -> "15 SHIFRA NA ZEMJA"
      [] s = "15 shifra na zemja" -> "15 SHIFRA NA ZEMJA"
      [] s = "17 Zemja na namena" -> "17 ZEMJA NA NAMENA"
      [] s = "17 zemja na namena" -> "17 ZEMJA NA NAMENA"
      [] s = "1d" -> "1D"
      [] s = "2 Consignor/Exporter" -> "2 CONSIGNOR/EXPORTER"
      [] s = "2 Consignor/Exporter No" -> "2 CONSIGNOR/EXPORTER NO"
      [] s = "2 consignor/exporter" -> "2 CONSIGNOR/EXPORTER"
      [] s = "2 consignor/exporter no" -> "2 CONSIGNOR/EXPORTER NO"
      [] s = "2 Isprakjach/Izvoznik" -> "2 ISPRAKJACH/IZVOZNIK"
      [] s = "2 isprakjach/izvoznik" -> "2 ISPRAKJACH/IZVOZNIK"
      [] s = "24mk001" -> "24MK001"
      [] s = "29 Izlezen carinski organ" -> "29 IZLEZEN CARINSKI ORGAN"
      [] s = "29 izlezen carinski organ" -> "29 IZLEZEN CARINSKI ORGAN"
      [] s = "33 Tarifna oznaka" -> "33 TARIFNA OZNAKA"
      [] s = "33 tarifna oznaka" -> "33 TARIFNA OZNAKA"
      [] s = "35 Bruto masa" -> "35 BRUTO MASA"
      [] s = "35 bruto masa" -> "35 BRUTO MASA"
      [] s = "44 Dopolnitelni informacii" -> "44 DOPOLNITELNI INFORMACII"
      [] s = "44 dopolnitelni informacii" -> "44 DOPOLNITELNI INFORMACII"
      [] s = "46 Statistichka vrednost" -> "46 STATISTICHKA VREDNOST"
      [] s = "46 statistichka vrednost" -> "46 STATISTICHKA VREDNOST"
      [] s = "7 referenten broj 1/2026" -> "7 REFERENTEN BROJ 1/2026"
      [] s = "8 Primach" -> "8 PRIMACH"
      [] s = "8 primach" -> "8 PRIMACH"
      [] s = "BASE FIC 00000 St.Eusebe" -> "BASE FIC 00000 ST.EUSEBE"
      [] s = "BASE FIC 71210 St.Eusebe" -> "BASE FIC 71210 ST.EUSEBE"
      [] s = "Co" -> "CO"
      [] s = "Consignor/Exporter" -> "CONSIGNOR/EXPORTER"
      [] s = "Consignor/Exporter tov.list" -> "CONSIGNOR/EXPORTER TOV.LIST"
      [] s = "No" -> "NO"
      [] s = "St" -> "ST"
      [] s = "St.Eusebe" -> "ST.EUSEBE"
      [] s = "a" -> "A"
      [] s = "a " -> "A "
      [] s = "a MK" -> "A MK"
      [] s = "a mk" -> "A MK"
      [] s = "au" -> "AU"
      [] s = "aun" -> "AUN"
      [] s = "aun-mk19/2024" -> "AUN-MK19/2024"
      [] s = "aun-mk19/2024," -> "AUN-MK19/2024,"
      [] s = "aun-mk19/2024, 5016-0052639" -> "AUN-MK19/2024, 5016-0052639"
      [] s = "aun-mk19/2024." -> "AUN-MK19/2024."
      [] s = "aun-mk19/2024. 5016-0052639" -> "AUN-MK19/2024. 5016-0052639"
      [] s = "ba" -> "BA"
      [] s = "base" -> "BASE"
      [] s = "base fic 00000 st.eusebe" -> "BASE FIC 00000 ST.EUSEBE"
      [] s = "base fic 71210 st.eusebe" -> "BASE FIC 71210 ST.EUSEBE"
      [] s = "co" -> "CO"
      [] s = "consignor/exporter" -> "CONSIGNOR/EXPORTER"
      [] s = "consignor/exporter tov.list" -> "CONSIGNOR/EXPORTER TOV.LIST"
      [] s = "cp" -> "CP"
      [] s = "cpt" -> "CPT"
      [] s = "eu" -> "EU"
      [] s = "eur" -> "EUR"
      [] s = "ex" -> "EX"
      [] s = "exmk" -> "EXMK"
      [] s = "fi" -> "FI"
      [] s = "fic" -> "FIC"
      [] s = "fr" -> "FR"
      [] s = "fr 1" -> "FR 1"
      [] s = "france" -> "FRANCE"
      [] s = "freyssinet" -> "FREYSSINET"
      [] s = "freyssinet sas" -> "FREYSSINET SAS"
      [] s = "kg" -> "KG"
      [] s = "kgm" -> "KGM"
      [] s = "lr" -> "LR"
      [] s = "lrn" -> "LRN"
      [] s = "lrn : 24mk001" -> "LRN : 24MK001"
      [] s = "mk" -> "MK"
      [] s = "mk002031" -> "MK002031"
      [] s = "mk002031 tabanovce" -> "MK002031 TABANOVCE"
      [] s = "mk19/2024" -> "MK19/2024"
      [] s = "mk4030990253804" -> "MK4030990253804"
      [] s = "no" -> "NO"
      [] s = "px" -> "PX"
      [] s = "sa" -> "SA"
      [] s = "sas" -> "SAS"
      [] s = "si" -> "SI"
      [] s = "sk" -> "SK"
      [] s = "sk1234ab" -> "SK1234AB"
      [] s = "sk1234ab fr 1" -> "SK1234AB FR 1"
      [] s = "sk1234ab/sk5678cd" -> "SK1234AB/SK5678CD"
      [] s = "st" -> "ST"
      [] s = "st.eusebe" -> "ST.EUSEBE"
      [] s = "zz" -> "ZZ"
      [] s = "Bi" -> "BI"
      [] s = "Bilesha" -> "BILESHA"
      [] s = "Bilesha 50" -> "BILESHA 50"
      [] s = "Bilesha 50 1000" -> "BILESHA 50 1000"
      [] s = "Br" -> "BR"
      [] s = "Broj" -> "BROJ"
      [] s = "Bruto" -> "BRUTO"
      [] s = "Bruto masa" -> "BRUTO MASA"
      [] s = "Ve" -> "VE"
      [] s = "Ventil-1" -> "VENTIL-1"
      [] s = "Ventil-1  kom." -> "VENTIL-1  KOM."
      [] s = "Ventil-1kom." -> "VENTIL-1KOM."
      [] s = "Vz" -> "VZ"
      [] s = "Vzaemno" -> "VZAEMNO"
      [] s = "Vzaemno opredeleno" -> "VZAEMNO OPREDELENO"
      [] s = "Vzaemno opredeleno-24-ZZ" -> "VZAEMNO OPREDELENO-24-ZZ"
      [] s = "Vzaemno opredeleno-24-ZZ Paleta-14-PX" -> "VZAEMNO OPREDELENO-24-ZZ PALETA-14-PX"
      [] s = "Vi" -> "VI"
      [] s = "Vid" -> "VID"
      [] s = "Vid na transport na granica" -> "VID NA TRANSPORT NA GRANICA"
      [] s = "De" -> "DE"
      [] s = "Delovi" -> "DELOVI"
      [] s = "Delovi za mashini" -> "DELOVI ZA MASHINI"
      [] s = "Do" -> "DO"
      [] s = "Dopolnitelni" -> "DOPOLNITELNI"
      [] s = "Ze" -> "ZE"
      [] s = "Zemja" -> "ZEMJA"
      [] s = "Iz" -> "IZ"
      [] s = "Izlezen" -> "IZLEZEN"
      [] s = "Is" -> "IS"
      [] s = "Isprakjach/Izvoznik" -> "ISPRAKJACH/IZVOZNIK"
      [] s = "Ne" -> "NE"
      [] s = "Oz" -> "OZ"
      [] s = "Oznaki" -> "OZNAKI"
      [] s = "Oznaki i broevi - Broj na kontejner" -> "OZNAKI I BROEVI - BROJ NA KONTEJNER"
      [] s = "Oznaki i broevi -Broj na kontejner" -> "OZNAKI I BROEVI -BROJ NA KONTEJNER"
      [] s = "Pa" -> "PA_cyr"
      [] s = "Paleta" -> "PALETA"
      [] s = "Paleta-14-PX" -> "PALETA-14-PX"
      [] s = "Partizanska" -> "PARTIZANSKA"
      [] s = "Pr" -> "PR"
      [] s = "Primach" -> "PRIMACH"
      [] s = "Sk" -> "SK_cyr"
      [] s = "Skopje" -> "SKOPJE"
      [] s = "St_cyr" -> "ST_cyr"
      [] s = "Statistichka" -> "STATISTICHKA"
      [] s = "Ta" -> "TA"
      [] s = "Tarifna" -> "TARIFNA"
      [] s = "Shi" -> "SHI"
      [] s = "Shifra" -> "SHIFRA"
      [] s = "a_cyr" -> "A_cyr"
      [] s = "bi" -> "BI"
      [] s = "bilesha" -> "BILESHA"
      [] s = "bilesha 50" -> "BILESHA 50"
      [] s = "bilesha 50 1000" -> "BILESHA 50 1000"
      [] s = "br" -> "BR"
      [] s = "broevi" -> "BROEVI"
      [] s = "broj" -> "BROJ"
      [] s = "bruto" -> "BRUTO"
      [] s = "bruto masa" -> "BRUTO MASA"
      [] s = "ve" -> "VE"
      [] s = "ventil-1" -> "VENTIL-1"
      [] s = "ventil-1  kom." -> "VENTIL-1  KOM."
      [] s = "ventil-1kom." -> "VENTIL-1KOM."
      [] s = "vz" -> "VZ"
      [] s = "vzaemno" -> "VZAEMNO"
      [] s = "vzaemno opredeleno" -> "VZAEMNO OPREDELENO"
      [] s = "vzaemno opredeleno-24-zz" -> "VZAEMNO OPREDELENO-24-ZZ"
      [] s = "vzaemno opredeleno-24-zz paleta-14-px" -> "VZAEMNO OPREDELENO-24-ZZ PALETA-14-PX"
      [] s = "vi" -> "VI"
      [] s = "vid" -> "VID"
      [] s = "vid na transport na granica" -> "VID NA TRANSPORT NA GRANICA"
      [] s = "vr" -> "VR"
      [] s = "vrednost" -> "VREDNOST"
      [] s = "gr" -> "GR"
      [] s = "granica" -> "GRANICA"
      [] s = "de" -> "DE"
      [] s = "delovi" -> "DELOVI"
      [] s = "delovi za mashini" -> "DELOVI ZA MASHINI"
      [] s = "do" -> "DO"
      [] s = "domzhale" -> "DOMZHALE"
      [] s = "doo" -> "DOO"
      [] s = "dooel" -> "DOOEL"
      [] s = "dopolnitelni" -> "DOPOLNITELNI"
      [] s = "ec" -> "EC"
      [] s = "ecd" -> "ECD"
      [] s = "za" -> "ZA"
      [] s = "ze" -> "ZE"
      [] s = "zemja" -> "ZEMJA"
      [] s = "i" -> "I"
      [] s = "iz" -> "IZ"
      [] s = "izlezen" -> "IZLEZEN"
      [] s = "in" -> "IN"
      [] s = "informacii" -> "INFORMACII"
      [] s = "is" -> "IS"
      [] s = "isprakjach/izvoznik" -> "ISPRAKJACH/IZVOZNIK"
      [] s = "ko" -> "KO"
      [] s = "kom." -> "KOM."
      [] s = "kontejner" -> "KONTEJNER"
      [] s = "ma" -> "MA"
      [] s = "makedonija" -> "MAKEDONIJA"
      [] s = "masa" -> "MASA"
      [] s = "mashini" -> "MASHINI"
      [] s = "mi" -> "MI"
      [] s = "mikloshicheva" -> "MIKLOSHICHEVA"
      [] s = "mikloshicheva ulica 1d domzhale" -> "MIKLOSHICHEVA ULICA 1D DOMZHALE"
      [] s = "mikloshicheva ulica 1d domzhale 00000" -> "MIKLOSHICHEVA ULICA 1D DOMZHALE 00000"
      [] s = "na" -> "NA"
      [] s = "namena" -> "NAMENA"
      [] s = "ne" -> "NE"
      [] s = "oz" -> "OZ"
      [] s = "oznaka" -> "OZNAKA"
      [] s = "oznaki" -> "OZNAKI"
      [] s = "oznaki i broevi - broj na kontejner" -> "OZNAKI I BROEVI - BROJ NA KONTEJNER"
      [] s = "oznaki i broevi -broj na kontejner" -> "OZNAKI I BROEVI -BROJ NA KONTEJNER"
      [] s = "op" -> "OP"
      [] s = "opredeleno" -> "OPREDELENO"
      [] s = "opredeleno-24-ZZ" -> "OPREDELENO-24-ZZ"
      [] s = "opredeleno-24-zz" -> "OPREDELENO-24-ZZ"
      [] s = "or" -> "OR"
      [] s = "organ" -> "ORGAN"
      [] s = "pa" -> "PA_cyr"
      [] s = "paleta" -> "PALETA"
      [] s = "paleta-14-px" -> "PALETA-14-PX"
      [] s = "partizanska" -> "PARTIZANSKA"
      [] s = "pr" -> "PR"
      [] s = "primach" -> "PRIMACH"
      [] s = "primach doo" -> "PRIMACH DOO"
      [] s = "rb" -> "RB"
      [] s = "rbd" -> "RBD"
      [] s = "rbd 12" -> "RBD 12"
      [] s = "rd" -> "RD"
      [] s = "rdb" -> "RDB"
      [] s = "rdb 5" -> "RDB 5"
      [] s = "rdb:" -> "RDB:"
      [] s = "re" -> "RE"
      [] s = "referenten" -> "REFERENTEN"
      [] s = "s" -> "S"
      [] s = "se" -> "SE"
      [] s = "severna" -> "SEVERNA"
      [] s = "severna makedonija" -> "SEVERNA MAKEDONIJA"
      [] s = "sk_cyr" -> "SK_cyr"
      [] s = "skopje" -> "SKOPJE"
      [] s = "st_cyr" -> "ST_cyr"
      [] s = "statistichka" -> "STATISTICHKA"
      [] s = "ta" -> "TA"
      [] s = "tabanovce" -> "TABANOVCE"
      [] s = "tabanovce-patn." -> "TABANOVCE-PATN."
      [] s = "tarifna" -> "TARIFNA"
      [] s = "to" -> "TO"
      [] s = "tov.list" -> "TOV.LIST"
      [] s = "tov.list 123" -> "TOV.LIST 123"
      [] s = "tr" -> "TR"
      [] s = "transport" -> "TRANSPORT"
      [] s = "ul" -> "UL"
      [] s = "ul." -> "UL."
      [] s = "ul. Partizanska 1, Skopje" -> "UL. PARTIZANSKA 1, SKOPJE"
      [] s = "ul. Partizanska 1. Skopje" -> "UL. PARTIZANSKA 1. SKOPJE"
      [] s = "ul. partizanska 1, skopje" -> "UL. PARTIZANSKA 1, SKOPJE"
      [] s = "ul. partizanska 1. skopje" -> "UL. PARTIZANSKA 1. SKOPJE"
      [] s = "ulica" -> "ULICA"
      [] s = "ulica 1d domzhale" -> "ULICA 1D DOMZHALE"
      [] s = "ulica 1d domzhale 000000" -> "ULICA 1D DOMZHALE 000000"
      [] s = "ulica 1d domzhale 1230" -> "ULICA 1D DOMZHALE 1230"
      [] s = "fi_cyr" -> "FI_cyr"
      [] s = "firma" -> "FIRMA"
      [] s = "firma dooel" -> "FIRMA DOOEL"
      [] s = "fr_cyr" -> "FR_cyr"
      [] s = "francija" -> "FRANCIJA"
      [] s = "francija fr" -> "FRANCIJA FR"
      [] s = "ca" -> "CA"
      [] s = "carinski" -> "CARINSKI"
      [] s = "shi" -> "SHI"
      [] s = "shifra" -> "SHIFRA"
      [] OTHER -> s

\* s.replace(old, new), for old = ',', for new = '.'
replace_1(old, new, s) ==
    IF old = "," /\ new = "."
    THEN CASE s = "1," -> "1."
           [] s = "120,5" -> "120.5"
           [] s = "AUN-MK19/2024," -> "AUN-MK19/2024."
           [] s = "AUN-MK19/2024, 5016-0052639" -> "AUN-MK19/2024. 5016-0052639"
           [] s = "aun-mk19/2024," -> "aun-mk19/2024."
           [] s = "aun-mk19/2024, 5016-0052639" -> "aun-mk19/2024. 5016-0052639"
           [] s = "UL. PARTIZANSKA 1, SKOPJE" -> "UL. PARTIZANSKA 1. SKOPJE"
           [] s = "ul. Partizanska 1, Skopje" -> "ul. Partizanska 1. Skopje"
           [] s = "ul. partizanska 1, skopje" -> "ul. partizanska 1. skopje"
           [] OTHER -> s
    ELSE s

\* s.split(sep)[-1], for sep = ','
split_last_1(sep, s) ==
    IF sep = ","
    THEN CASE s = "1," -> ""
           [] s = "120,5" -> "5"
           [] s = "AUN-MK19/2024," -> ""
           [] s = "AUN-MK19/2024, 5016-0052639" -> " 5016-0052639"
           [] s = "aun-mk19/2024," -> ""
           [] s = "aun-mk19/2024, 5016-0052639" -> " 5016-0052639"
           [] s = "UL. PARTIZANSKA 1, SKOPJE" -> " SKOPJE"
           [] s = "ul. Partizanska 1, Skopje" -> " Skopje"
           [] s = "ul. partizanska 1, skopje" -> " skopje"
           [] OTHER -> s
    ELSE s

\* s[:n], for n = 2
prefix_2(n, s) ==
    IF n = 2
    THEN CASE s = " 5016-0052639" -> " 5"
           [] s = " SKOPJE" -> " S"
           [] s = " Skopje" -> " S"
           [] s = " skopje" -> " s"
           [] s = "-BROJ" -> "-B"
           [] s = "-Broj" -> "-B"
           [] s = "-broj" -> "-b"
           [] s = "00000" -> "00"
           [] s = "000000" -> "00"
           [] s = "002031" -> "00"
           [] s = "005263" -> "00"
           [] s = "0052639" -> "00"
           [] s = "025380" -> "02"
           [] s = "0253804" -> "02"
           [] s = "052639" -> "05"
           [] s = "1 EXMK 341" -> "1 "
           [] s = "1 exmk 341" -> "1 "
           [] s = "1/2026" -> "1/"
           [] s = "1000" -> "10"
           [] s = "120" -> "12"
           [] s = "120,5" -> "12"
           [] s = "120.5" -> "12"
           [] s = "1200" -> "12"
           [] s = "123" -> "12"
           [] s = "1230" -> "12"
           [] s = "1234" -> "12"
           [] s = "123456" -> "12"
           [] s = "12345678" -> "12"
           [] s = "12345678 " -> "12"
           [] s = "14 CONSIGNOR/EXPORTER" -> "14"
           [] s = "14 Consignor/Exporter" -> "14"
           [] s = "14 consignor/exporter" -> "14"
           [] s = "15 SHIFRA NA ZEMJA" -> "15"
           [] s = "15 Shifra na zemja" -> "15"
           [] s = "15 shifra na zemja" -> "15"
           [] s = "17 ZEMJA NA NAMENA" -> "17"
           [] s = "17 Zemja na namena" -> "17"
           [] s = "17 zemja na namena" -> "17"
           [] s = "2 CONSIGNOR/EXPORTER" -> "2 "
           [] s = "2 CONSIGNOR/EXPORTER NO" -> "2 "
           [] s = "2 Consignor/Exporter" -> "2 "
           [] s = "2 Consignor/Exporter No" -> "2 "
           [] s = "2 consignor/exporter" -> "2 "
           [] s = "2 consignor/exporter no" -> "2 "
           [] s = "2 ISPRAKJACH/IZVOZNIK" -> "2 "
           [] s = "2 Isprakjach/Izvoznik" -> "2 "
           [] s = "2 isprakjach/izvoznik" -> "2 "
           [] s = "2031" -> "20"
           [] s = "24MK001" -> "24"
           [] s = "24mk001" -> "24"
           [] s = "29 IZLEZEN CARINSKI ORGAN" -> "29"
           [] s = "29 Izlezen carinski organ" -> "29"
           [] s = "29 izlezen carinski organ" -> "29"
           [] s = "33 TARIFNA OZNAKA" -> "33"
           [] s = "33 Tarifna oznaka" -> "33"
           [] s = "33 tarifna oznaka" -> "33"
           [] s = "341" -> "34"
           [] s = "35 BRUTO MASA" -> "35"
           [] s = "35 Bruto masa" -> "35"
           [] s = "35 bruto masa" -> "35"
           [] s = "403099" -> "40"
           [] s = "4030990253804" -> "40"
           [] s = "44 DOPOLNITELNI INFORMACII" -> "44"
           [] s = "44 Dopolnitelni informacii" -> "44"
           [] s = "44 dopolnitelni informacii" -> "44"
           [] s = "46 STATISTICHKA VREDNOST" -> "46"
           [] s = "46 Statistichka vrednost" -> "46"
           [] s = "46 statistichka vrednost" -> "46"
           [] s = "5007" -> "50"
           [] s = "5007(9)" -> "50"
           [] s = "5010" -> "50"
           [] s = "5010(123)" -> "50"
           [] s = "5010(123) 5010(123)" -> "50"
           [] s = "5016" -> "50"
           [] s = "5016(0052639)" -> "50"
           [] s = "5016(0052639) 5007(9)" -> "50"
           [] s = "5016-0052639" -> "50"
           [] s = "5016-0052639 5016-0052639" -> "50"
           [] s = "52639" -> "52"
           [] s = "7 REFERENTEN BROJ 1/2026" -> "7 "
           [] s = "7 referenten broj 1/2026" -> "7 "
           [] s = "71210" -> "71"
           [] s = "8 PRIMACH" -> "8 "
           [] s = "8 Primach" -> "8 "
           [] s = "8 primach" -> "8 "
           [] s = "876543" -> "87"
           [] s = "87654321" -> "87"
           [] s = "9 5016-0052639" -> "9 "
           [] s = "9) 5007(9)" -> "9)"
           [] s = "A MK" -> "A "
           [] s = "AUN" -> "AU"
           [] s = "AUN-MK19/2024" -> "AU"
           [] s = "AUN-MK19/2024," -> "AU"
           [] s = "AUN-MK19/2024, 5016-0052639" -> "AU"
           [] s = "AUN-MK19/2024." -> "AU"
           [] s = "AUN-MK19/2024. 5016-0052639" -> "AU"
           [] s = "BASE" -> "BA"
           [] s = "BASE FIC 00000 ST.EUSEBE" -> "BA"
           [] s = "BASE FIC 00000 St.Eusebe" -> "BA"
           [] s = "BASE FIC 71210 ST.EUSEBE" -> "BA"
           [] s = "BASE FIC 71210 St.Eusebe" -> "BA"
           [] s = "CONSIGNOR/EXPORTER" -> "CO"
           [] s = "CONSIGNOR/EXPORTER TOV.LIST" -> "CO"
           [] s = "CPT" -> "CP"
           [] s = "Consignor/Exporter" -> "Co"
           [] s = "Consignor/Exporter tov.list" -> "Co"
           [] s = "EUR" -> "EU"
           [] s = "EXMK" -> "EX"
           [] s = "FIC" -> "FI"
           [] s = "FR 1" -> "FR"
           [] s = "FRANCE" -> "FR"
           [] s = "FREYSSINET" -> "FR"
           [] s = "FREYSSINET SAS" -> "FR"
           [] s = "KGM" -> "KG"
           [] s = "LRN" -> "LR"
           [] s = "LRN : 24MK001" -> "LR"
           [] s = "MK002031" -> "MK"
           [] s = "MK002031 TABANOVCE" -> "MK"
           [] s = "MK19/2024" -> "MK"
           [] s = "MK4030990253804" -> "MK"
           [] s = "SAS" -> "SA"
           [] s = "SK1234AB" -> "SK"
           [] s = "SK1234AB FR 1" -> "SK"
           [] s = "SK1234AB/SK5678CD" -> "SK"
           [] s = "ST.EUSEBE" -> "ST"
           [] s = "St.Eusebe" -> "St"
           [] s = "a MK" -> "a "
           [] s = "a mk" -> "a "
           [] s = "aun" -> "au"
           [] s = "aun-mk19/2024" -> "au"
           [] s = "aun-mk19/2024," -> "au"
           [] s = "aun-mk19/2024, 5016-0052639" -> "au"
           [] s = "aun-mk19/2024." -> "au"
           [] s = "aun-mk19/2024. 5016-0052639" -> "au"
           [] s = "base" -> "ba"
           [] s = "base fic 00000 st.eusebe" -> "ba"
           [] s = "base fic 71210 st.eusebe" -> "ba"
           [] s = "consignor/exporter" -> "co"
           [] s = "consignor/exporter tov.list" -> "co"
           [] s = "cpt" -> "cp"
           [] s = "eur" -> "eu"
           [] s = "exmk" -> "ex"
           [] s = "fic" -> "fi"
           [] s = "fr 1" -> "fr"
           [] s = "france" -> "fr"
           [] s = "freyssinet" -> "fr"
           [] s = "freyssinet sas" -> "fr"
           [] s = "kgm" -> "kg"
           [] s = "lrn" -> "lr"
           [] s = "lrn : 24mk001" -> "lr"
           [] s = "mk002031" -> "mk"
           [] s = "mk002031 tabanovce" -> "mk"
           [] s = "mk19/2024" -> "mk"
           [] s = "mk4030990253804" -> "mk"
           [] s = "sas" -> "sa"
           [] s = "sk1234ab" -> "sk"
           [] s = "sk1234ab fr 1" -> "sk"
           [] s = "sk1234ab/sk5678cd" -> "sk"
           [] s = "st.eusebe" -> "st"
           [] s = "BILESHA" -> "BI"
           [] s = "BILESHA 50" -> "BI"
           [] s = "BILESHA 50 1000" -> "BI"
           [] s = "BROJ" -> "BR"
           [] s = "BROEVI" -> "BR"
           [] s = "BRUTO" -> "BR"
           [] s = "BRUTO MASA" -> "BR"
           [] s = "Bilesha" -> "Bi"
           [] s = "Bilesha 50" -> "Bi"
           [] s = "Bilesha 50 1000" -> "Bi"
           [] s = "Broj" -> "Br"
           [] s = "Bruto" -> "Br"
           [] s = "Bruto masa" -> "Br"
           [] s = "VENTIL-1" -> "VE"
           [] s = "VENTIL-1  KOM." -> "VE"
           [] s = "VENTIL-1KOM." -> "VE"
           [] s = "VZAEMNO" -> "VZ"
           [] s = "VZAEMNO OPREDELENO" -> "VZ"
           [] s = "VZAEMNO OPREDELENO-24-ZZ" -> "VZ"
           [] s = "VZAEMNO OPREDELENO-24-ZZ PALETA-14-PX" -> "VZ"
           [] s = "VID" -> "VI"
           [] s = "VID NA TRANSPORT NA GRANICA" -> "VI"
           [] s = "VREDNOST" -> "VR"
           [] s = "Ventil-1" -> "Ve"
           [] s = "Ventil-1  kom." -> "Ve"
           [] s = "Ventil-1kom." -> "Ve"
           [] s = "Vzaemno" -> "Vz"
           [] s = "Vzaemno opredeleno" -> "Vz"
           [] s = "Vzaemno opredeleno-24-ZZ" -> "Vz"
           [] s = "Vzaemno opredeleno-24-ZZ Paleta-14-PX" -> "Vz"
           [] s = "Vid" -> "Vi"
           [] s = "Vid na transport na granica" -> "Vi"
           [] s = "GRANICA" -> "GR"
           [] s = "DELOVI" -> "DE"
           [] s = "DELOVI ZA MASHINI" -> "DE"
           [] s = "DOMZHALE" -> "DO"
           [] s = "DOO" -> "DO"
           [] s = "DOOEL" -> "DO"
           [] s = "DOPOLNITELNI" -> "DO"
           [] s = "Delovi" -> "De"
           [] s = "Delovi za mashini" -> "De"
           [] s = "Dopolnitelni" -> "Do"
           [] s = "ECD" -> "EC"
           [] s = "ZEMJA" -> "ZE"
           [] s = "Zemja" -> "Ze"
           [] s = "IZLEZEN" -> "IZ"
           [] s = "INFORMACII" -> "IN"
           [] s = "ISPRAKJACH/IZVOZNIK" -> "IS"
           [] s = "Izlezen" -> "Iz"
           [] s = "Isprakjach/Izvoznik" -> "Is"
           [] s = "KOM." -> "KO"
           [] s = "KONTEJNER" -> "KO"
           [] s = "MAKEDONIJA" -> "MA"
           [] s = "MASA" -> "MA"
           [] s = "MASHINI" -> "MA"
           [] s = "MIKLOSHICHEVA" -> "MI"
           [] s = "MIKLOSHICHEVA ULICA 1D DOMZHALE" -> "MI"
           [] s = "MIKLOSHICHEVA ULICA 1D DOMZHALE 00000" -> "MI"
           [] s = "NAMENA" -> "NA"
           [] s = "OZNAKA" -> "OZ"
           [] s = "OZNAKI" -> "OZ"
           [] s = "OZNAKI I BROEVI - BROJ NA KONTEJNER" -> "OZ"
           [] s = "OZNAKI I BROEVI -BROJ NA KONTEJNER" -> "OZ"
           [] s = "OPREDELENO" -> "OP"
           [] s = "OPREDELENO-24-ZZ" -> "OP"
           [] s = "ORGAN" -> "OR"
           [] s = "Oznaki" -> "Oz"
           [] s = "Oznaki i broevi - Broj na kontejner" -> "Oz"
           [] s = "Oznaki i broevi -Broj na kontejner" -> "Oz"
           [] s = "PALETA" -> "PA_cyr"
           [] s = "PALETA-14-PX" -> "PA_cyr"
           [] s = "PARTIZANSKA" -> "PA_cyr"
           [] s = "PRIMACH" -> "PR"
           [] s = "PRIMACH DOO" -> "PR"
           [] s = "Paleta" -> "Pa"
           [] s = "Paleta-14-PX" -> "Pa"
           [] s = "Partizanska" -> "Pa"
           [] s = "Primach" -> "Pr"
           [] s = "RBD" -> "RB"
           [] s = "RBD 12" -> "RB"
           [] s = "RDB" -> "RD"
           [] s = "RDB 5" -> "RD"
           [] s = "RDB:" -> "RD"
           [] s = "REFERENTEN" -> "RE"
           [] s = "SEVERNA" -> "SE"
           [] s = "SEVERNA MAKEDONIJA" -> "SE"
           [] s = "SKOPJE" -> "SK_cyr"
           [] s = "STATISTICHKA" -> "ST_cyr"
           [] s = "Skopje" -> "Sk"
           [] s = "Statistichka" -> "St_cyr"
           [] s = "TABANOVCE" -> "TA"
           [] s = "TABANOVCE-PATN." -> "TA"
           [] s = "TARIFNA" -> "TA"
           [] s = "TOV.LIST" -> "TO"
           [] s = "TOV.LIST 123" -> "TO"
           [] s = "TRANSPORT" -> "TR"
           [] s = "Tarifna" -> "Ta"
           [] s = "UL." -> "UL"
           [] s = "UL. PARTIZANSKA 1, SKOPJE" -> "UL"
           [] s = "UL. PARTIZANSKA 1. SKOPJE" -> "UL"
           [] s = "ULICA" -> "UL"
           [] s = "ULICA 1D DOMZHALE" -> "UL"
           [] s = "ULICA 1D DOMZHALE 000000" -> "UL"
           [] s = "ULICA 1D DOMZHALE 1230" -> "UL"
           [] s = "FIRMA" -> "FI_cyr"
           [] s = "FIRMA DOOEL" -> "FI_cyr"
           [] s = "FRANCIJA" -> "FR_cyr"
           [] s = "FRANCIJA FR" -> "FR_cyr"
           [] s = "CARINSKI" -> "CA"
           [] s = "SHIFRA" -> "SHI"
           [] s = "Shifra" -> "Shi"
           [] s = "bilesha" -> "bi"
           [] s = "bilesha 50" -> "bi"
           [] s = "bilesha 50 1000" -> "bi"
           [] s = "broevi" -> "br"
           [] s = "broj" -> "br"
           [] s = "bruto" -> "br"
           [] s = "bruto masa" -> "br"
           [] s = "ventil-1" -> "ve"
           [] s = "ventil-1  kom." -> "ve"
           [] s = "ventil-1kom." -> "ve"
           [] s = "vzaemno" -> "vz"
           [] s = "vzaemno opredeleno" -> "vz"
           [] s = "vzaemno opredeleno-24-zz" -> "vz"
           [] s = "vzaemno opredeleno-24-zz paleta-14-px" -> "vz"
           [] s = "vid" -> "vi"
           [] s = "vid na transport na granica" -> "vi"
           [] s = "vrednost" -> "vr"
           [] s = "granica" -> "gr"
           [] s = "delovi" -> "de"
           [] s = "delovi za mashini" -> "de"
           [] s = "domzhale" -> "do"
           [] s = "doo" -> "do"
           [] s = "dooel" -> "do"
           [] s = "dopolnitelni" -> "do"
           [] s = "ecd" -> "ec"
           [] s = "zemja" -> "ze"
           [] s = "izlezen" -> "iz"
           [] s = "informacii" -> "in"
           [] s = "isprakjach/izvoznik" -> "is"
           [] s = "kom." -> "ko"
           [] s = "kontejner" -> "ko"
           [] s = "makedonija" -> "ma"
           [] s = "masa" -> "ma"
           [] s = "mashini" -> "ma"
           [] s = "mikloshicheva" -> "mi"
           [] s = "mikloshicheva ulica 1d domzhale" -> "mi"
           [] s = "mikloshicheva ulica 1d domzhale 00000" -> "mi"
           [] s = "namena" -> "na"
           [] s = "oznaka" -> "oz"
           [] s = "oznaki" -> "oz"
           [] s = "oznaki i broevi - broj na kontejner" -> "oz"
           [] s = "oznaki i broevi -broj na kontejner" -> "oz"
           [] s = "opredeleno" -> "op"
           [] s = "opredeleno-24-ZZ" -> "op"
           [] s = "opredeleno-24-zz" -> "op"
           [] s = "organ" -> "or"
           [] s = "paleta" -> "pa"
           [] s = "paleta-14-px" -> "pa"
           [] s = "partizanska" -> "pa"
           [] s = "primach" -> "pr"
           [] s = "primach doo" -> "pr"
           [] s = "rbd" -> "rb"
           [] s = "rbd 12" -> "rb"
           [] s = "rdb" -> "rd"
           [] s = "rdb 5" -> "rd"
           [] s = "rdb:" -> "rd"
           [] s = "referenten" -> "re"
           [] s = "severna" -> "se"
           [] s = "severna makedonija" -> "se"
           [] s = "skopje" -> "sk_cyr"
           [] s = "statistichka" -> "st_cyr"
           [] s = "tabanovce" -> "ta"
           [] s = "tabanovce-patn." -> "ta"
           [] s = "tarifna" -> "ta"
           [] s = "tov.list" -> "to"
           [] s = "tov.list 123" -> "to"
           [] s = "transport" -> "tr"
           [] s = "ul." -> "ul"
           [] s = "ul. Partizanska 1, Skopje" -> "ul"
           [] s = "ul. Partizanska 1. Skopje" -> "ul"
           [] s = "ul. partizanska 1, skopje" -> "ul"
           [] s = "ul. partizanska 1. skopje" -> "ul"
           [] s = "ulica" -> "ul"
           [] s = "ulica 1d domzhale" -> "ul"
           [] s = "ulica 1d domzhale 000000" -> "ul"
           [] s = "ulica 1d domzhale 1230" -> "ul"
           [] s = "firma" -> "fi_cyr"
           [] s = "firma dooel" -> "fi_cyr"
           [] s = "francija" -> "fr_cyr"
           [] s = "francija fr" -> "fr_cyr"
           [] s = "carinski" -> "ca"
           [] s = "shifra" -> "shi"
           [] OTHER -> s
    ELSE s

\* repr(float(s)), or "ValueError" when float(s) raises
float(s) ==
    CASE s = " 5" -> "5.0"
      [] s = "0" -> "0.0"
      [] s = "00" -> "0.0"
      [] s = "00000" -> "0.0"
      [] s = "000000" -> "0.0"
      [] s = "002031" -> "2031.0"
      [] s = "005263" -> "5263.0"
      [] s = "0052639" -> "52639.0"
      [] s = "02" -> "2.0"
      [] s = "025380" -> "25380.0"
      [] s = "0253804" -> "253804.0"
      [] s = "05" -> "5.0"
      [] s = "052639" -> "52639.0"
      [] s = "1" -> "1.0"
      [] s = "1 " -> "1.0"
      [] s = "1." -> "1.0"
      [] s = "10" -> "10.0"
      [] s = "1000" -> "1000.0"
      [] s = "12" -> "12.0"
      [] s = "120" -> "120.0"
      [] s = "120.5" -> "120.5"
      [] s = "1200" -> "1200.0"
      [] s = "123" -> "123.0"
      [] s = "1230" -> "1230.0"
      [] s = "1234" -> "1234.0"
      [] s = "123456" -> "123456.0"
      [] s = "12345678" -> "12345678.0"
      [] s = "12345678 " -> "12345678.0"
      [] s = "14" -> "14.0"
      [] s = "15" -> "15.0"
      [] s = "17" -> "17.0"
      [] s = "19" -> "19.0"
      [] s = "2" -> "2.0"
      [] s = "2 " -> "2.0"
      [] s = "20" -> "20.0"
      [] s = "2031" -> "2031.0"
      [] s = "21" -> "21.0"
      [] s = "24" -> "24.0"
      [] s = "29" -> "29.0"
      [] s = "3" -> "3.0"
      [] s = "33" -> "33.0"
      [] s = "34" -> "34.0"
      [] s = "341" -> "341.0"
      [] s = "35" -> "35.0"
      [] s = "4" -> "4.0"
      [] s = "40" -> "40.0"
      [] s = "403099" -> "403099.0"
      [] s = "4030990253804" -> "4030990253804.0"
      [] s = "44" -> "44.0"
      [] s = "46" -> "46.0"
      [] s = "5" -> "5.0"
      [] s = "50" -> "50.0"
      [] s = "5007" -> "5007.0"
      [] s = "5010" -> "5010.0"
      [] s = "5016" -> "5016.0"
      [] s = "52" -> "52.0"
      [] s = "52639" -> "52639.0"
      [] s = "7" -> "7.0"
      [] s = "7 " -> "7.0"
      [] s = "71" -> "71.0"
      [] s = "71210" -> "71210.0"
      [] s = "78" -> "78.0"
      [] s = "8" -> "8.0"
      [] s = "8 " -> "8.0"
      [] s = "87" -> "87.0"
      [] s = "876543" -> "876543.0"
      [] s = "87654321" -> "87654321.0"
      [] s = "9" -> "9.0"
      [] s = "9 " -> "9.0"
      [] OTHER -> "ValueError"

\* len(s)
len(s) ==
    CASE s = "" -> 0
      [] s = " 5" -> 2
      [] s = " 5016-0052639" -> 13
      [] s = " S" -> 2
      [] s = " SKOPJE" -> 7
      [] s = " Skopje" -> 7
      [] s = " s" -> 2
      [] s = " skopje" -> 7
      [] s = "-" -> 1
      [] s = "-B" -> 2
      [] s = "-BROJ" -> 5
      [] s = "-Broj" -> 5
      [] s = "-b" -> 2
      [] s = "-broj" -> 5
      [] s = "." -> 1
      [] s = "0" -> 1
      [] s = "00" -> 2
      [] s = "00000" -> 5
      [] s = "000000" -> 6
      [] s = "002031" -> 6
      [] s = "005263" -> 6
      [] s = "0052639" -> 7
      [] s = "02" -> 2
      [] s = "025380" -> 6
      [] s = "0253804" -> 7
      [] s = "05" -> 2
      [] s = "052639" -> 6
      [] s = "1" -> 1
      [] s = "1 " -> 2
      [] s = "1 EXMK 341" -> 10
      [] s = "1 exmk 341" -> 10
      [] s = "1," -> 2
      [] s = "1." -> 2
      [] s = "1/" -> 2
      [] s = "1/2026" -> 6
      [] s = "10" -> 2
      [] s = "1000" -> 4
      [] s = "12" -> 2
      [] s = "120" -> 3
      [] s = "120,5" -> 5
      [] s = "120.5" -> 5
      [] s = "1200" -> 4
      [] s = "123" -> 3
      [] s = "1230" -> 4
      [] s = "1234" -> 4
      [] s = "123456" -> 6
      [] s = "12345678" -> 8
      [] s = "12345678 " -> 9
      [] s = "14" -> 2
      [] s = "14 CONSIGNOR/EXPORTER" -> 21
      [] s = "14 Consignor/Exporter" -> 21
      [] s = "14 consignor/exporter" -> 21
      [] s = "15" -> 2
      [] s = "15 SHIFRA NA ZEMJA" -> 17
      [] s = "15 Shifra na zemja" -> 17
      [] s = "15 shifra na zemja" -> 17
      [] s = "17" -> 2
      [] s = "17 ZEMJA NA NAMENA" -> 18
      [] s = "17 Zemja na namena" -> 18
      [] s = "17 zemja na namena" -> 18
      [] s = "19" -> 2
      [] s = "1D" -> 2
      [] s = "1d" -> 2
      [] s = "2" -> 1
      [] s = "2 " -> 2
      [] s = "2 CONSIGNOR/EXPORTER" -> 20
      [] s = "2 CONSIGNOR/EXPORTER NO" -> 23
      [] s = "2 Consignor/Exporter" -> 20
      [] s = "2 Consignor/Exporter No" -> 23
      [] s = "2 consignor/exporter" -> 20
      [] s = "2 consignor/exporter no" -> 23
      [] s = "2 ISPRAKJACH/IZVOZNIK" -> 19
      [] s = "2 Isprakjach/Izvoznik" -> 19
      [] s = "2 isprakjach/izvoznik" -> 19
      [] s = "20" -> 2
      [] s = "2031" -> 4
      [] s = "21" -> 2
      [] s = "24" -> 2
      [] s = "24MK001" -> 7
      [] s = "24mk001" -> 7
      [] s = "29" -> 2
      [] s = "29 IZLEZEN CARINSKI ORGAN" -> 25
      [] s = "29 Izlezen carinski organ" -> 25
      [] s = "29 izlezen carinski organ" -> 25
      [] s = "3" -> 1
      [] s = "33" -> 2
      [] s = "33 TARIFNA OZNAKA" -> 17
      [] s = "33 Tarifna oznaka" -> 17
      [] s = "33 tarifna oznaka" -> 17
      [] s = "34" -> 2
      [] s = "341" -> 3
      [] s = "35" -> 2
      [] s = "35 BRUTO MASA" -> 13
      [] s = "35 Bruto masa" -> 13
      [] s = "35 bruto masa" -> 13
      [] s = "4" -> 1
      [] s = "40" -> 2
      [] s = "403099" -> 6
      [] s = "4030990253804" -> 13
      [] s = "44" -> 2
      [] s = "44 DOPOLNITELNI INFORMACII" -> 26
      [] s = "44 Dopolnitelni informacii" -> 26
      [] s = "44 dopolnitelni informacii" -> 26
      [] s = "46" -> 2
      [] s = "46 STATISTICHKA VREDNOST" -> 23
      [] s = "46 Statistichka vrednost" -> 23
      [] s = "46 statistichka vrednost" -> 23
      [] s = "5" -> 1
      [] s = "50" -> 2
      [] s = "5007" -> 4
      [] s = "5007(9)" -> 7
      [] s = "5010" -> 4
      [] s = "5010(123)" -> 9
      [] s = "5010(123) 5010(123)" -> 19
      [] s = "5016" -> 4
      [] s = "5016(0052639)" -> 13
      [] s = "5016(0052639) 5007(9)" -> 21
      [] s = "5016-0052639" -> 12
      [] s = "5016-0052639 5016-0052639" -> 25
      [] s = "52" -> 2
      [] s = "52639" -> 5
      [] s = "7" -> 1
      [] s = "7 " -> 2
      [] s = "7 REFERENTEN BROJ 1/2026" -> 24
      [] s = "7 referenten broj 1/2026" -> 24
      [] s = "71" -> 2
      [] s = "71210" -> 5
      [] s = "78" -> 2
      [] s = "8" -> 1
      [] s = "8 " -> 2
      [] s = "8 PRIMACH" -> 8
      [] s = "8 Primach" -> 8
      [] s = "8 primach" -> 8
      [] s = "87" -> 2
      [] s = "876543" -> 6
      [] s = "87654321" -> 8
      [] s = "9" -> 1
      [] s = "9 " -> 2
      [] s = "9 5016-0052639" -> 14
      [] s = "9)" -> 2
      [] s = "9) 5007(9)" -> 10
      [] s = ":" -> 1
      [] s = "A" -> 1
      [] s = "A " -> 2
      [] s = "A MK" -> 4
      [] s = "AU" -> 2
      [] s = "AUN" -> 3
      [] s = "AUN-MK19/2024" -> 13
      [] s = "AUN-MK19/2024," -> 14
      [] s = "AUN-MK19/2024, 5016-0052639" -> 27
      [] s = "AUN-MK19/2024." -> 14
      [] s = "AUN-MK19/2024. 5016-0052639" -> 27
      [] s = "BA" -> 2
      [] s = "BASE" -> 4
      [] s = "BASE FIC 00000 ST.EUSEBE" -> 24
      [] s = "BASE FIC 00000 St.Eusebe" -> 24
      [] s = "BASE FIC 71210 ST.EUSEBE" -> 24
      [] s = "BASE FIC 71210 St.Eusebe" -> 24
      [] s = "CO" -> 2
      [] s = "CONSIGNOR/EXPORTER" -> 18
      [] s = "CONSIGNOR/EXPORTER TOV.LIST" -> 27
      [] s = "CP" -> 2
      [] s = "CPT" -> 3
      [] s = "Co" -> 2
      [] s = "Consignor/Exporter" -> 18
      [] s = "Consignor/Exporter tov.list" -> 27
      [] s = "EU" -> 2
      [] s = "EUR" -> 3
      [] s = "EX" -> 2
      [] s = "EXMK" -> 4
      [] s = "FI" -> 2
      [] s = "FIC" -> 3
      [] s = "FR" -> 2
      [] s = "FR 1" -> 4
      [] s = "FRANCE" -> 6
      [] s = "FREYSSINET" -> 10
      [] s = "FREYSSINET SAS" -> 14
      [] s = "KG" -> 2
      [] s = "KGM" -> 3
      [] s = "LR" -> 2
      [] s = "LRN" -> 3
      [] s = "LRN : 24MK001" -> 13
      [] s = "MK" -> 2
      [] s = "MK002031" -> 8
      [] s = "MK002031 TABANOVCE" -> 18
      [] s = "MK19/2024" -> 9
      [] s = "MK4030990253804" -> 15
      [] s = "NO" -> 2
      [] s = "No" -> 2
      [] s = "PX" -> 2
      [] s = "SA" -> 2
      [] s = "SAS" -> 3
      [] s = "SI" -> 2
      [] s = "SK" -> 2
      [] s = "SK1234AB" -> 8
      [] s = "SK1234AB FR 1" -> 13
      [] s = "SK1234AB/SK5678CD" -> 17
      [] s = "ST" -> 2
      [] s = "ST.EUSEBE" -> 9
      [] s = "St" -> 2
      [] s = "St.Eusebe" -> 9
      [] s = "ZZ" -> 2
      [] s = "a" -> 1
      [] s = "a " -> 2
      [] s = "a MK" -> 4
      [] s = "a mk" -> 4
      [] s = "au" -> 2
      [] s = "aun" -> 3
      [] s = "aun-mk19/2024" -> 13
      [] s = "aun-mk19/2024," -> 14
      [] s = "aun-mk19/2024, 5016-0052639" -> 27
      [] s = "aun-mk19/2024." -> 14
      [] s = "aun-mk19/2024. 5016-0052639" -> 27
      [] s = "ba" -> 2
      [] s = "base" -> 4
      [] s = "base fic 00000 st.eusebe" -> 24
      [] s = "base fic 71210 st.eusebe" -> 24
      [] s = "co" -> 2
      [] s = "consignor/exporter" -> 18
      [] s = "consignor/exporter tov.list" -> 27
      [] s = "cp" -> 2
      [] s = "cpt" -> 3
      [] s = "eu" -> 2
      [] s = "eur" -> 3
      [] s = "ex" -> 2
      [] s = "exmk" -> 4
      [] s = "fi" -> 2
      [] s = "fic" -> 3
      [] s = "fr" -> 2
      [] s = "fr 1" -> 4
      [] s = "france" -> 6
      [] s = "freyssinet" -> 10
      [] s = "freyssinet sas" -> 14
      [] s = "kg" -> 2
      [] s = "kgm" -> 3
      [] s = "lr" -> 2
      [] s = "lrn" -> 3
      [] s = "lrn : 24mk001" -> 13
      [] s = "mk" -> 2
      [] s = "mk002031" -> 8
      [] s = "mk002031 tabanovce" -> 18
      [] s = "mk19/2024" -> 9
      [] s = "mk4030990253804" -> 15
      [] s = "no" -> 2
      [] s = "px" -> 2
      [] s = "sa" -> 2
      [] s = "sas" -> 3
      [] s = "si" -> 2
      [] s = "sk" -> 2
      [] s = "sk1234ab" -> 8
      [] s = "sk1234ab fr 1" -> 13
      [] s = "sk1234ab/sk5678cd" -> 17
      [] s = "st" -> 2
      [] s = "st.eusebe" -> 9
      [] s = "zz" -> 2
      [] s = "<sup2>" -> 1
      [] s = "A_cyr" -> 1
      [] s = "BI" -> 2
      [] s = "BILESHA" -> 6
      [] s = "BILESHA 50" -> 9
      [] s = "BILESHA 50 1000" -> 14
      [] s = "BR" -> 2
      [] s = "BROJ" -> 4
      [] s = "BROEVI" -> 6
      [] s = "BRUTO" -> 5
      [] s = "BRUTO MASA" -> 10
      [] s = "Bi" -> 2
      [] s = "Bilesha" -> 6
      [] s = "Bilesha 50" -> 9
      [] s = "Bilesha 50 1000" -> 14
      [] s = "Br" -> 2
      [] s = "Broj" -> 4
      [] s = "Bruto" -> 5
      [] s = "Bruto masa" -> 10
      [] s = "VE" -> 2
      [] s = "VENTIL-1" -> 8
      [] s = "VENTIL-1  KOM." -> 14
      [] s = "VENTIL-1KOM." -> 12
      [] s = "VZ" -> 2
      [] s = "VZAEMNO" -> 7
      [] s = "VZAEMNO OPREDELENO" -> 18
      [] s = "VZAEMNO OPREDELENO-24-ZZ" -> 24
      [] s = "VZAEMNO OPREDELENO-24-ZZ PALETA-14-PX" -> 37
      [] s = "VI" -> 2
      [] s = "VID" -> 3
      [] s = "VID NA TRANSPORT NA GRANICA" -> 27
      [] s = "VR" -> 2
      [] s = "VREDNOST" -> 8
      [] s = "Ve" -> 2
      [] s = "Ventil-1" -> 8
      [] s = "Ventil-1  kom." -> 14
      [] s = "Ventil-1kom." -> 12
      [] s = "Vz" -> 2
      [] s = "Vzaemno" -> 7
      [] s = "Vzaemno opredeleno" -> 18
      [] s = "Vzaemno opredeleno-24-ZZ" -> 24
      [] s = "Vzaemno opredeleno-24-ZZ Paleta-14-PX" -> 37
      [] s = "Vi" -> 2
      [] s = "Vid" -> 3
      [] s = "Vid na transport na granica" -> 27
      [] s = "GR" -> 2
      [] s = "GRANICA" -> 7
      [] s = "DE" -> 2
      [] s = "DELOVI" -> 6
      [] s = "DELOVI ZA MASHINI" -> 16
      [] s = "DO" -> 2
      [] s = "DOMZHALE" -> 7
      [] s = "DOO" -> 3
      [] s = "DOOEL" -> 5
      [] s = "DOPOLNITELNI" -> 12
      [] s = "De" -> 2
      [] s = "Delovi" -> 6
      [] s = "Delovi za mashini" -> 16
      [] s = "Do" -> 2
      [] s = "Dopolnitelni" -> 12
      [] s = "EC" -> 2
      [] s = "ECD" -> 3
      [] s = "ZA" -> 2
      [] s = "ZE" -> 2
      [] s = "ZEMJA" -> 5
      [] s = "Ze" -> 2
      [] s = "Zemja" -> 5
      [] s = "I" -> 1
      [] s = "IZ" -> 2
      [] s = "IZLEZEN" -> 7
      [] s = "IN" -> 2
      [] s = "INFORMACII" -> 10
      [] s = "IS" -> 2
      [] s = "ISPRAKJACH/IZVOZNIK" -> 17
      [] s = "Iz" -> 2
      [] s = "Izlezen" -> 7
      [] s = "Is" -> 2
      [] s = "Isprakjach/Izvoznik" -> 17
      [] s = "KO" -> 2
      [] s = "KOM." -> 4
      [] s = "KONTEJNER" -> 9
      [] s = "MA" -> 2
      [] s = "MAKEDONIJA" -> 10
      [] s = "MASA" -> 4
      [] s = "MASHINI" -> 6
      [] s = "MI" -> 2
      [] s = "MIKLOSHICHEVA" -> 11
      [] s = "MIKLOSHICHEVA ULICA 1D DOMZHALE" -> 28
      [] s = "MIKLOSHICHEVA ULICA 1D DOMZHALE 00000" -> 34
      [] s = "NA" -> 2
      [] s = "NAMENA" -> 6
      [] s = "NE" -> 2
      [] s = "Ne" -> 2
      [] s = "OZ" -> 2
      [] s = "OZNAKA" -> 6
      [] s = "OZNAKI" -> 6
      [] s = "OZNAKI I BROEVI - BROJ NA KONTEJNER" -> 35
      [] s = "OZNAKI I BROEVI -BROJ NA KONTEJNER" -> 34
      [] s = "OP" -> 2
      [] s = "OPREDELENO" -> 10
      [] s = "OPREDELENO-24-ZZ" -> 16
      [] s = "OR" -> 2
      [] s = "ORGAN" -> 5
      [] s = "Oz" -> 2
      [] s = "Oznaki" -> 6
      [] s = "Oznaki i broevi - Broj na kontejner" -> 35
      [] s = "Oznaki i broevi -Broj na kontejner" -> 34
      [] s = "PA_cyr" -> 2
      [] s = "PALETA" -> 6
      [] s = "PALETA-14-PX" -> 12
      [] s = "PARTIZANSKA" -> 11
      [] s = "PR" -> 2
      [] s = "PRIMACH" -> 6
      [] s = "PRIMACH DOO" -> 10
      [] s = "Pa" -> 2
      [] s = "Paleta" -> 6
      [] s = "Paleta-14-PX" -> 12
      [] s = "Partizanska" -> 11
      [] s = "Pr" -> 2
      [] s = "Primach" -> 6
      [] s = "RB" -> 2
      [] s = "RBD" -> 3
      [] s = "RBD 12" -> 6
      [] s = "RD" -> 2
      [] s = "RDB" -> 3
      [] s = "RDB 5" -> 5
      [] s = "RDB:" -> 4
      [] s = "RE" -> 2
      [] s = "REFERENTEN" -> 10
      [] s = "S" -> 1
      [] s = "SE" -> 2
      [] s = "SEVERNA" -> 7
      [] s = "SEVERNA MAKEDONIJA" -> 18
      [] s = "SK_cyr" -> 2
      [] s = "SKOPJE" -> 6
      [] s = "ST_cyr" -> 2
      [] s = "STATISTICHKA" -> 11
      [] s = "Sk" -> 2
      [] s = "Skopje" -> 6
      [] s = "St_cyr" -> 2
      [] s = "Statistichka" -> 11
      [] s = "TA" -> 2
      [] s = "TABANOVCE" -> 9
      [] s = "TABANOVCE-PATN." -> 15
      [] s = "TARIFNA" -> 7
      [] s = "TO" -> 2
      [] s = "TOV.LIST" -> 8
      [] s = "TOV.LIST 123" -> 12
      [] s = "TR" -> 2
      [] s = "TRANSPORT" -> 9
      [] s = "Ta" -> 2
      [] s = "Tarifna" -> 7
      [] s = "UL" -> 2
      [] s = "UL." -> 3
      [] s = "UL. PARTIZANSKA 1, SKOPJE" -> 25
      [] s = "UL. PARTIZANSKA 1. SKOPJE" -> 25
      [] s = "ULICA" -> 5
      [] s = "ULICA 1D DOMZHALE" -> 16
      [] s = "ULICA 1D DOMZHALE 000000" -> 23
      [] s = "ULICA 1D DOMZHALE 1230" -> 21
      [] s = "FI_cyr" -> 2
      [] s = "FIRMA" -> 5
      [] s = "FIRMA DOOEL" -> 11
      [] s = "FR_cyr" -> 2
      [] s = "FRANCIJA" -> 8
      [] s = "FRANCIJA FR" -> 11
      [] s = "CA" -> 2
      [] s = "CARINSKI" -> 8
      [] s = "SHI" -> 2
      [] s = "SHIFRA" -> 5
      [] s = "Shi" -> 2
      [] s = "Shifra" -> 5
      [] s = "a_cyr" -> 1
      [] s = "bi" -> 2
      [] s = "bilesha" -> 6
      [] s = "bilesha 50" -> 9
      [] s = "bilesha 50 1000" -> 14
      [] s = "br" -> 2
      [] s = "broevi" -> 6
      [] s = "broj" -> 4
      [] s = "bruto" -> 5
      [] s = "bruto masa" -> 10
      [] s = "ve" -> 2
      [] s = "ventil-1" -> 8
      [] s = "ventil-1  kom." -> 14
      [] s = "ventil-1kom." -> 12
      [] s = "vz" -> 2
      [] s = "vzaemno" -> 7
      [] s = "vzaemno opredeleno" -> 18
      [] s = "vzaemno opredeleno-24-zz" -> 24
      [] s = "vzaemno opredeleno-24-zz paleta-14-px" -> 37
      [] s = "vi" -> 2
      [] s = "vid" -> 3
      [] s = "vid na transport na granica" -> 27
      [] s = "vr" -> 2
      [] s = "vrednost" -> 8
      [] s = "gr" -> 2
      [] s = "granica" -> 7
      [] s = "de" -> 2
      [] s = "delovi" -> 6
      [] s = "delovi za mashini" -> 16
      [] s = "do" -> 2
      [] s = "domzhale" -> 7
      [] s = "doo" -> 3
      [] s = "dooel" -> 5
      [] s = "dopolnitelni" -> 12
      [] s = "ec" -> 2
      [] s = "ecd" -> 3
      [] s = "za" -> 2
      [] s = "ze" -> 2
      [] s = "zemja" -> 5
      [] s = "i" -> 1
      [] s = "iz" -> 2
      [] s = "izlezen" -> 7
      [] s = "in" -> 2
      [] s = "informacii" -> 10
      [] s = "is" -> 2
      [] s = "isprakjach/izvoznik" -> 17
      [] s = "ko" -> 2
      [] s = "kom." -> 4
      [] s = "kontejner" -> 9
      [] s = "ma" -> 2
      [] s = "makedonija" -> 10
      [] s = "masa" -> 4
      [] s = "mashini" -> 6
      [] s = "mi" -> 2
      [] s = "mikloshicheva" -> 11
      [] s = "mikloshicheva ulica 1d domzhale" -> 28
      [] s = "mikloshicheva ulica 1d domzhale 00000" -> 34
      [] s = "na" -> 2
      [] s = "namena" -> 6
      [] s = "ne" -> 2
      [] s = "oz" -> 2
      [] s = "oznaka" -> 6
      [] s = "oznaki" -> 6
      [] s = "oznaki i broevi - broj na kontejner" -> 35
      [] s = "oznaki i broevi -broj na kontejner" -> 34
      [] s = "op" -> 2
      [] s = "opredeleno" -> 10
      [] s = "opredeleno-24-ZZ" -> 16
      [] s = "opredeleno-24-zz" -> 16
      [] s = "or" -> 2
      [] s = "organ" -> 5
      [] s = "pa" -> 2
      [] s = "paleta" -> 6
      [] s = "paleta-14-px" -> 12
      [] s = "partizanska" -> 11
      [] s = "pr" -> 2
      [] s = "primach" -> 6
      [] s = "primach doo" -> 10
      [] s = "rb" -> 2
      [] s = "rbd" -> 3
      [] s = "rbd 12" -> 6
      [] s = "rd" -> 2
      [] s = "rdb" -> 3
      [] s = "rdb 5" -> 5
      [] s = "rdb:" -> 4
      [] s = "re" -> 2
      [] s = "referenten" -> 10
      [] s = "s" -> 1
      [] s = "se" -> 2
      [] s = "severna" -> 7
      [] s = "severna makedonija" -> 18
      [] s = "sk_cyr" -> 2
      [] s = "skopje" -> 6
      [] s = "st_cyr" -> 2
      [] s = "statistichka" -> 11
      [] s = "ta" -> 2
      [] s = "tabanovce" -> 9
      [] s = "tabanovce-patn." -> 15
      [] s = "tarifna" -> 7
      [] s = "to" -> 2
      [] s = "tov.list" -> 8
      [] s = "tov.list 123" -> 12
      [] s = "tr" -> 2
      [] s = "transport" -> 9
      [] s = "ul" -> 2
      [] s = "ul." -> 3
      [] s = "ul. Partizanska 1, Skopje" -> 25
      [] s = "ul. Partizanska 1. Skopje" -> 25
      [] s = "ul. partizanska 1, skopje" -> 25
      [] s = "ul. partizanska 1. skopje" -> 25
      [] s = "ulica" -> 5
      [] s = "ulica 1d domzhale" -> 16
      [] s = "ulica 1d domzhale 000000" -> 23
      [] s = "ulica 1d domzhale 1230" -> 21
      [] s = "fi_cyr" -> 2
      [] s = "firma" -> 5
      [] s = "firma dooel" -> 11
      [] s = "fr_cyr" -> 2
      [] s = "francija" -> 8
      [] s = "francija fr" -> 11
      [] s = "ca" -> 2
      [] s = "carinski" -> 8
      [] s = "shi" -> 2
      [] s = "shifra" -> 5
      [] OTHER -> 0

\* int(s), where it does not raise (values below 2^31)
int(s) ==
    CASE s = " 5" -> 5
      [] s = "0" -> 0
      [] s = "00" -> 0
      [] s = "00000" -> 0
      [] s = "000000" -> 0
      [] s = "002031" -> 2031
      [] s = "005263" -> 5263
      [] s = "0052639" -> 52639
      [] s = "02" -> 2
      [] s = "025380" -> 25380
      [] s = "0253804" -> 253804
      [] s = "05" -> 5
      [] s = "052639" -> 52639
      [] s = "1" -> 1
      [] s = "1 " -> 1
      [] s = "10" -> 10
      [] s = "1000" -> 1000
      [] s = "12" -> 12
      [] s = "120" -> 120
      [] s = "1200" -> 1200
      [] s = "123" -> 123
      [] s = "1230" -> 1230
      [] s = "1234" -> 1234
      [] s = "123456" -> 123456
      [] s = "12345678" -> 12345678
      [] s = "12345678 " -> 12345678
      [] s = "14" -> 14
      [] s = "15" -> 15
      [] s = "17" -> 17
      [] s = "19" -> 19
      [] s = "2" -> 2
      [] s = "2 " -> 2
      [] s = "20" -> 20
      [] s = "2031" -> 2031
      [] s = "21" -> 21
      [] s = "24" -> 24
      [] s = "29" -> 29
      [] s = "3" -> 3
      [] s = "33" -> 33
      [] s = "34" -> 34
      [] s = "341" -> 341
      [] s = "35" -> 35
      [] s = "4" -> 4
      [] s = "40" -> 40
      [] s = "403099" -> 403099
      [] s = "44" -> 44
      [] s = "46" -> 46
      [] s = "5" -> 5
      [] s = "50" -> 50
      [] s = "5007" -> 5007
      [] s = "5010" -> 5010
      [] s = "5016" -> 5016
      [] s = "52" -> 52
      [] s = "52639" -> 52639
      [] s = "7" -> 7
      [] s = "7 " -> 7
      [] s = "71" -> 71
      [] s = "71210" -> 71210
      [] s = "78" -> 78
      [] s = "8" -> 8
      [] s = "8 " -> 8
      [] s = "87" -> 87
      [] s = "876543" -> 876543
      [] s = "87654321" -> 87654321
      [] s = "9" -> 9
      [] s = "9 " -> 9
      [] OTHER -> 0

\* s.split()
words(s) ==
    CASE s = " 5" -> <<"5">>
      [] s = " 5016-0052639" -> <<"5016-0052639">>
      [] s = " S" -> <<"S">>
      [] s = " SKOPJE" -> <<"SKOPJE">>
      [] s = " Skopje" -> <<"Skopje">>
      [] s = " s" -> <<"s">>
      [] s = " skopje" -> <<"skopje">>
      [] s = "-" -> <<"-">>
      [] s = "-B" -> <<"-B">>
      [] s = "-BROJ" -> <<"-BROJ">>
      [] s = "-Broj" -> <<"-Broj">>
      [] s = "-b" -> <<"-b">>
      [] s = "-broj" -> <<"-broj">>
      [] s = "." -> <<".">>
      [] s = "0" -> <<"0">>
      [] s = "00" -> <<"00">>
      [] s = "00000" -> <<"00000">>
      [] s = "000000" -> <<"000000">>
      [] s = "002031" -> <<"002031">>
      [] s = "005263" -> <<"005263">>
      [] s = "0052639" -> <<"0052639">>
      [] s = "02" -> <<"02">>
      [] s = "025380" -> <<"025380">>
      [] s = "0253804" -> <<"0253804">>
      [] s = "05" -> <<"05">>
      [] s = "052639" -> <<"052639">>
      [] s = "1" -> <<"1">>
      [] s = "1 " -> <<"1">>
      [] s = "1 EXMK 341" -> <<"1", "EXMK", "341">>
      [] s = "1 exmk 341" -> <<"1", "exmk", "341">>
      [] s = "1," -> <<"1,">>
      [] s = "1." -> <<"1.">>
      [] s = "1/" -> <<"1/">>
      [] s = "1/2026" -> <<"1/2026">>
      [] s = "10" -> <<"10">>
      [] s = "1000" -> <<"1000">>
      [] s = "12" -> <<"12">>
      [] s = "120" -> <<"120">>
      [] s = "120,5" -> <<"120,5">>
      [] s = "120.5" -> <<"120.5">>
      [] s = "1200" -> <<"1200">>
      [] s = "123" -> <<"123">>
      [] s = "1230" -> <<"1230">>
      [] s = "1234" -> <<"1234">>
      [] s = "123456" -> <<"123456">>
      [] s = "12345678" -> <<"12345678">>
      [] s = "12345678 " -> <<"12345678">>
      [] s = "14" -> <<"14">>
      [] s = "14 CONSIGNOR/EXPORTER" -> <<"14", "CONSIGNOR/EXPORTER">>
      [] s = "14 Consignor/Exporter" -> <<"14", "Consignor/Exporter">>
      [] s = "14 consignor/exporter" -> <<"14", "consignor/exporter">>
      [] s = "15" -> <<"15">>
      [] s = "15 SHIFRA NA ZEMJA" -> <<"15", "SHIFRA", "NA", "ZEMJA">>
      [] s = "15 Shifra na zemja" -> <<"15", "Shifra", "na", "zemja">>
      [] s = "15 shifra na zemja" -> <<"15", "shifra", "na", "zemja">>
      [] s = "17" -> <<"17">>
      [] s = "17 ZEMJA NA NAMENA" -> <<"17", "ZEMJA", "NA", "NAMENA">>
      [] s = "17 Zemja na namena" -> <<"17", "Zemja", "na", "namena">>
      [] s = "17 zemja na namena" -> <<"17", "zemja", "na", "namena">>
      [] s = "19" -> <<"19">>
      [] s = "1D" -> <<"1D">>
      [] s = "1d" -> <<"1d">>
      [] s = "2" -> <<"2">>
      [] s = "2 " -> <<"2">>
      [] s = "2 CONSIGNOR/EXPORTER" -> <<"2", "CONSIGNOR/EXPORTER">>
      [] s = "2 CONSIGNOR/EXPORTER NO" -> <<"2", "CONSIGNOR/EXPORTER", "NO">>
      [] s = "2 Consignor/Exporter" -> <<"2", "Consignor/Exporter">>
      [] s = "2 Consignor/Exporter No" -> <<"2", "Consignor/Exporter", "No">>
      [] s = "2 consignor/exporter" -> <<"2", "consignor/exporter">>
      [] s = "2 consignor/exporter no" -> <<"2", "consignor/exporter", "no">>
      [] s = "2 ISPRAKJACH/IZVOZNIK" -> <<"2", "ISPRAKJACH/IZVOZNIK">>
      [] s = "2 Isprakjach/Izvoznik" -> <<"2", "Isprakjach/Izvoznik">>
      [] s = "2 isprakjach/izvoznik" -> <<"2", "isprakjach/izvoznik">>
      [] s = "20" -> <<"20">>
      [] s = "2031" -> <<"2031">>
      [] s = "21" -> <<"21">>
      [] s = "24" -> <<"24">>
      [] s = "24MK001" -> <<"24MK001">>
      [] s = "24mk001" -> <<"24mk001">>
      [] s = "29" -> <<"29">>
      [] s = "29 IZLEZEN CARINSKI ORGAN" -> <<"29", "IZLEZEN", "CARINSKI", "ORGAN">>
      [] s = "29 Izlezen carinski organ" -> <<"29", "Izlezen", "carinski", "organ">>
      [] s = "29 izlezen carinski organ" -> <<"29", "izlezen", "carinski", "organ">>
      [] s = "3" -> <<"3">>
      [] s = "33" -> <<"33">>
      [] s = "33 TARIFNA OZNAKA" -> <<"33", "TARIFNA", "OZNAKA">>
      [] s = "33 Tarifna oznaka" -> <<"33", "Tarifna", "oznaka">>
      [] s = "33 tarifna oznaka" -> <<"33", "tarifna", "oznaka">>
      [] s = "34" -> <<"34">>
      [] s = "341" -> <<"341">>
      [] s = "35" -> <<"35">>
      [] s = "35 BRUTO MASA" -> <<"35", "BRUTO", "MASA">>
      [] s = "35 Bruto masa" -> <<"35", "Bruto", "masa">>
      [] s = "35 bruto masa" -> <<"35", "bruto", "masa">>
      [] s = "4" -> <<"4">>
      [] s = "40" -> <<"40">>
      [] s = "403099" -> <<"403099">>
      [] s = "4030990253804" -> <<"4030990253804">>
      [] s = "44" -> <<"44">>
      [] s = "44 DOPOLNITELNI INFORMACII" -> <<"44", "DOPOLNITELNI", "INFORMACII">>
      [] s = "44 Dopolnitelni informacii" -> <<"44", "Dopolnitelni", "informacii">>
      [] s = "44 dopolnitelni informacii" -> <<"44", "dopolnitelni", "informacii">>
      [] s = "46" -> <<"46">>
      [] s = "46 STATISTICHKA VREDNOST" -> <<"46", "STATISTICHKA", "VREDNOST">>
      [] s = "46 Statistichka vrednost" -> <<"46", "Statistichka", "vrednost">>
      [] s = "46 statistichka vrednost" -> <<"46", "statistichka", "vrednost">>
      [] s = "5" -> <<"5">>
      [] s = "50" -> <<"50">>
      [] s = "5007" -> <<"5007">>
      [] s = "5007(9)" -> <<"5007(9)">>
      [] s = "5010" -> <<"5010">>
      [] s = "5010(123)" -> <<"5010(123)">>
      [] s = "5010(123) 5010(123)" -> <<"5010(123)", "5010(123)">>
      [] s = "5016" -> <<"5016">>
      [] s = "5016(0052639)" -> <<"5016(0052639)">>
      [] s = "5016(0052639) 5007(9)" -> <<"5016(0052639)", "5007(9)">>
      [] s = "5016-0052639" -> <<"5016-0052639">>
      [] s = "5016-0052639 5016-0052639" -> <<"5016-0052639", "5016-0052639">>
      [] s = "52" -> <<"52">>
      [] s = "52639" -> <<"52639">>
      [] s = "7" -> <<"7">>
      [] s = "7 " -> <<"7">>
      [] s = "7 REFERENTEN BROJ 1/2026" -> <<"7", "REFERENTEN", "BROJ", "1/2026">>
      [] s = "7 referenten broj 1/2026" -> <<"7", "referenten", "broj", "1/2026">>
      [] s = "71" -> <<"71">>
      [] s = "71210" -> <<"71210">>
      [] s = "78" -> <<"78">>
      [] s = "8" -> <<"8">>
      [] s = "8 " -> <<"8">>
      [] s = "8 PRIMACH" -> <<"8", "PRIMACH">>
      [] s = "8 Primach" -> <<"8", "Primach">>
      [] s = "8 primach" -> <<"8", "primach">>
      [] s = "87" -> <<"87">>
      [] s = "876543" -> <<"876543">>
      [] s = "87654321" -> <<"87654321">>
      [] s = "9" -> <<"9">>
      [] s = "9 " -> <<"9">>
      [] s = "9 5016-0052639" -> <<"9", "5016-0052639">>
      [] s = "9)" -> <<"9)">>
      [] s = "9) 5007(9)" -> <<"9)", "5007(9)">>
      [] s = ":" -> <<":">>
      [] s = "A" -> <<"A">>
      [] s = "A " -> <<"A">>
      [] s = "A MK" -> <<"A", "MK">>
      [] s = "AU" -> <<"AU">>
      [] s = "AUN" -> <<"AUN">>
      [] s = "AUN-MK19/2024" -> <<"AUN-MK19/2024">>
      [] s = "AUN-MK19/2024," -> <<"AUN-MK19/2024,">>
      [] s = "AUN-MK19/2024, 5016-0052639" -> <<"AUN-MK19/2024,", "5016-0052639">>
      [] s = "AUN-MK19/2024." -> <<"AUN-MK19/2024.">>
      [] s = "AUN-MK19/2024. 5016-0052639" -> <<"AUN-MK19/2024.", "5016-0052639">>
      [] s = "BA" -> <<"BA">>
      [] s = "BASE" -> <<"BASE">>
      [] s = "BASE FIC 00000 ST.EUSEBE" -> <<"BASE", "FIC", "00000", "ST.EUSEBE">>
      [] s = "BASE FIC 00000 St.Eusebe" -> <<"BASE", "FIC", "00000", "St.Eusebe">>
      [] s = "BASE FIC 71210 ST.EUSEBE" -> <<"BASE", "FIC", "71210", "ST.EUSEBE">>
      [] s = "BASE FIC 71210 St.Eusebe" -> <<"BASE", "FIC", "71210", "St.Eusebe">>
      [] s = "CO" -> <<"CO">>
      [] s = "CONSIGNOR/EXPORTER" -> <<"CONSIGNOR/EXPORTER">>
      [] s = "CONSIGNOR/EXPORTER TOV.LIST" -> <<"CONSIGNOR/EXPORTER", "TOV.LIST">>
      [] s = "CP" -> <<"CP">>
      [] s = "CPT" -> <<"CPT">>
      [] s = "Co" -> <<"Co">>
      [] s = "Consignor/Exporter" -> <<"Consignor/Exporter">>
      [] s = "Consignor/Exporter tov.list" -> <<"Consignor/Exporter", "tov.list">>
      [] s = "EU" -> <<"EU">>
      [] s = "EUR" -> <<"EUR">>
      [] s = "EX" -> <<"EX">>
      [] s = "EXMK" -> <<"EXMK">>
      [] s = "FI" -> <<"FI">>
      [] s = "FIC" -> <<"FIC">>
      [] s = "FR" -> <<"FR">>
      [] s = "FR 1" -> <<"FR", "1">>
      [] s = "FRANCE" -> <<"FRANCE">>
      [] s = "FREYSSINET" -> <<"FREYSSINET">>
      [] s = "FREYSSINET SAS" -> <<"FREYSSINET", "SAS">>
      [] s = "KG" -> <<"KG">>
      [] s = "KGM" -> <<"KGM">>
      [] s = "LR" -> <<"LR">>
      [] s = "LRN" -> <<"LRN">>
      [] s = "LRN : 24MK001" -> <<"LRN", ":", "24MK001">>
      [] s = "MK" -> <<"MK">>
      [] s = "MK002031" -> <<"MK002031">>
      [] s = "MK002031 TABANOVCE" -> <<"MK002031", "TABANOVCE">>
      [] s = "MK19/2024" -> <<"MK19/2024">>
      [] s = "MK4030990253804" -> <<"MK4030990253804">>
      [] s = "NO" -> <<"NO">>
      [] s = "No" -> <<"No">>
      [] s = "PX" -> <<"PX">>
      [] s = "SA" -> <<"SA">>
      [] s = "SAS" -> <<"SAS">>
      [] s = "SI" -> <<"SI">>
      [] s = "SK" -> <<"SK">>
      [] s = "SK1234AB" -> <<"SK1234AB">>
      [] s = "SK1234AB FR 1" -> <<"SK1234AB", "FR", "1">>
      [] s = "SK1234AB/SK5678CD" -> <<"SK1234AB/SK5678CD">>
      [] s = "ST" -> <<"ST">>
      [] s = "ST.EUSEBE" -> <<"ST.EUSEBE">>
      [] s = "St" -> <<"St">>
      [] s = "St.Eusebe" -> <<"St.Eusebe">>
      [] s = "ZZ" -> <<"ZZ">>
      [] s = "a" -> <<"a">>
      [] s = "a " -> <<"a">>
      [] s = "a MK" -> <<"a", "MK">>
      [] s = "a mk" -> <<"a", "mk">>
      [] s = "au" -> <<"au">>
      [] s = "aun" -> <<"aun">>
      [] s = "aun-mk19/2024" -> <<"aun-mk19/2024">>
      [] s = "aun-mk19/2024," -> <<"aun-mk19/2024,">>
      [] s = "aun-mk19/2024, 5016-0052639" -> <<"aun-mk19/2024,", "5016-0052639">>
      [] s = "aun-mk19/2024." -> <<"aun-mk19/2024.">>
      [] s = "aun-mk19/2024. 5016-0052639" -> <<"aun-mk19/2024.", "5016-0052639">>
      [] s = "ba" -> <<"ba">>
      [] s = "base" -> <<"base">>
      [] s = "base fic 00000 st.eusebe" -> <<"base", "fic", "00000", "st.eusebe">>
      [] s = "base fic 71210 st.eusebe" -> <<"base", "fic", "71210", "st.eusebe">>
      [] s = "co" -> <<"co">>
      [] s = "consignor/exporter" -> <<"consignor/exporter">>
      [] s = "consignor/exporter tov.list" -> <<"consignor/exporter", "tov.list">>
      [] s = "cp" -> <<"cp">>
      [] s = "cpt" -> <<"cpt">>
      [] s = "eu" -> <<"eu">>
      [] s = "eur" -> <<"eur">>
      [] s = "ex" -> <<"ex">>
      [] s = "exmk" -> <<"exmk">>
      [] s = "fi" -> <<"fi">>
      [] s = "fic" -> <<"fic">>
      [] s = "fr" -> <<"fr">>
      [] s = "fr 1" -> <<"fr", "1">>
      [] s = "france" -> <<"france">>
      [] s = "freyssinet" -> <<"freyssinet">>
      [] s = "freyssinet sas" -> <<"freyssinet", "sas">>
      [] s = "kg" -> <<"kg">>
      [] s = "kgm" -> <<"kgm">>
      [] s = "lr" -> <<"lr">>
      [] s = "lrn" -> <<"lrn">>
      [] s = "lrn : 24mk001" -> <<"lrn", ":", "24mk001">>
      [] s = "mk" -> <<"mk">>
      [] s = "mk002031" -> <<"mk002031">>
      [] s = "mk002031 tabanovce" -> <<"mk002031", "tabanovce">>
      [] s = "mk19/2024" -> <<"mk19/2024">>
      [] s = "mk4030990253804" -> <<"mk4030990253804">>
      [] s = "no" -> <<"no">>
      [] s = "px" -> <<"px">>
      [] s = "sa" -> <<"sa">>
      [] s = "sas" -> <<"sas">>
      [] s = "si" -> <<"si">>
      [] s = "sk" -> <<"sk">>
      [] s = "sk1234ab" -> <<"sk1234ab">>
      [] s = "sk1234ab fr 1" -> <<"sk1234ab", "fr", "1">>
      [] s = "sk1234ab/sk5678cd" -> <<"sk1234ab/sk5678cd">>
      [] s = "st" -> <<"st">>
      [] s = "st.eusebe" -> <<"st.eusebe">>
      [] s = "zz" -> <<"zz">>
      [] s = "<sup2>" -> <<"<sup2>">>
      [] s = "A_cyr" -> <<"A_cyr">>
      [] s = "BI" -> <<"BI">>
      [] s = "BILESHA" -> <<"BILESHA">>
      [] s = "BILESHA 50" -> <<"BILESHA", "50">>
      [] s = "BILESHA 50 1000" -> <<"BILESHA", "50", "1000">>
      [] s = "BR" -> <<"BR">>
      [] s = "BROJ" -> <<"BROJ">>
      [] s = "BROEVI" -> <<"BROEVI">>
      [] s = "BRUTO" -> <<"BRUTO">>
      [] s = "BRUTO MASA" -> <<"BRUTO", "MASA">>
      [] s = "Bi" -> <<"Bi">>
      [] s = "Bilesha" -> <<"Bilesha">>
      [] s = "Bilesha 50" -> <<"Bilesha", "50">>
      [] s = "Bilesha 50 1000" -> <<"Bilesha", "50", "1000">>
      [] s = "Br" -> <<"Br">>
      [] s = "Broj" -> <<"Broj">>
      [] s = "Bruto" -> <<"Bruto">>
      [] s = "Bruto masa" -> <<"Bruto", "masa">>
      [] s = "VE" -> <<"VE">>
      [] s = "VENTIL-1" -> <<"VENTIL-1">>
      [] s = "VENTIL-1  KOM." -> <<"VENTIL-1", "KOM.">>
      [] s = "VENTIL-1KOM." -> <<"VENTIL-1KOM.">>
      [] s = "VZ" -> <<"VZ">>
      [] s = "VZAEMNO" -> <<"VZAEMNO">>
      [] s = "VZAEMNO OPREDELENO" -> <<"VZAEMNO", "OPREDELENO">>
      [] s = "VZAEMNO OPREDELENO-24-ZZ" -> <<"VZAEMNO", "OPREDELENO-24-ZZ">>
      [] s = "VZAEMNO OPREDELENO-24-ZZ PALETA-14-PX" -> <<"VZAEMNO", "OPREDELENO-24-ZZ", "PALETA-14-PX">>
      [] s = "VI" -> <<"VI">>
      [] s = "VID" -> <<"VID">>
      [] s = "VID NA TRANSPORT NA GRANICA" -> <<"VID", "NA", "TRANSPORT", "NA", "GRANICA">>
      [] s = "VR" -> <<"VR">>
      [] s = "VREDNOST" -> <<"VREDNOST">>
      [] s = "Ve" -> <<"Ve">>
      [] s = "Ventil-1" -> <<"Ventil-1">>
      [] s = "Ventil-1  kom." -> <<"Ventil-1", "kom.">>
      [] s = "Ventil-1kom." -> <<"Ventil-1kom.">>
      [] s = "Vz" -> <<"Vz">>
      [] s = "Vzaemno" -> <<"Vzaemno">>
      [] s = "Vzaemno opredeleno" -> <<"Vzaemno", "opredeleno">>
      [] s = "Vzaemno opredeleno-24-ZZ" -> <<"Vzaemno", "opredeleno-24-ZZ">>
      [] s = "Vzaemno opredeleno-24-ZZ Paleta-14-PX" -> <<"Vzaemno", "opredeleno-24-ZZ", "Paleta-14-PX">>
      [] s = "Vi" -> <<"Vi">>
      [] s = "Vid" -> <<"Vid">>
      [] s = "Vid na transport na granica" -> <<"Vid", "na", "transport", "na", "granica">>
      [] s = "GR" -> <<"GR">>
      [] s = "GRANICA" -> <<"GRANICA">>
      [] s = "DE" -> <<"DE">>
      [] s = "DELOVI" -> <<"DELOVI">>
      [] s = "DELOVI ZA MASHINI" -> <<"DELOVI", "ZA", "MASHINI">>
      [] s = "DO" -> <<"DO">>
      [] s = "DOMZHALE" -> <<"DOMZHALE">>
      [] s = "DOO" -> <<"DOO">>
      [] s = "DOOEL" -> <<"DOOEL">>
      [] s = "DOPOLNITELNI" -> <<"DOPOLNITELNI">>
      [] s = "De" -> <<"De">>
      [] s = "Delovi" -> <<"Delovi">>
      [] s = "Delovi za mashini" -> <<"Delovi", "za", "mashini">>
      [] s = "Do" -> <<"Do">>
      [] s = "Dopolnitelni" -> <<"Dopolnitelni">>
      [] s = "EC" -> <<"EC">>
      [] s = "ECD" -> <<"ECD">>
      [] s = "ZA" -> <<"ZA">>
      [] s = "ZE" -> <<"ZE">>
      [] s = "ZEMJA" -> <<"ZEMJA">>
      [] s = "Ze" -> <<"Ze">>
      [] s = "Zemja" -> <<"Zemja">>
      [] s = "I" -> <<"I">>
      [] s = "IZ" -> <<"IZ">>
      [] s = "IZLEZEN" -> <<"IZLEZEN">>
      [] s = "IN" -> <<"IN">>
      [] s = "INFORMACII" -> <<"INFORMACII">>
      [] s = "IS" -> <<"IS">>
      [] s = "ISPRAKJACH/IZVOZNIK" -> <<"ISPRAKJACH/IZVOZNIK">>
      [] s = "Iz" -> <<"Iz">>
      [] s = "Izlezen" -> <<"Izlezen">>
      [] s = "Is" -> <<"Is">>
      [] s = "Isprakjach/Izvoznik" -> <<"Isprakjach/Izvoznik">>
      [] s = "KO" -> <<"KO">>
      [] s = "KOM." -> <<"KOM.">>
      [] s = "KONTEJNER" -> <<"KONTEJNER">>
      [] s = "MA" -> <<"MA">>
      [] s = "MAKEDONIJA" -> <<"MAKEDONIJA">>
      [] s = "MASA" -> <<"MASA">>
      [] s = "MASHINI" -> <<"MASHINI">>
      [] s = "MI" -> <<"MI">>
      [] s = "MIKLOSHICHEVA" -> <<"MIKLOSHICHEVA">>
      [] s = "MIKLOSHICHEVA ULICA 1D DOMZHALE" -> <<"MIKLOSHICHEVA", "ULICA", "1D", "DOMZHALE">>
      [] s = "MIKLOSHICHEVA ULICA 1D DOMZHALE 00000" -> <<"MIKLOSHICHEVA", "ULICA", "1D", "DOMZHALE", "00000">>
      [] s = "NA" -> <<"NA">>
      [] s = "NAMENA" -> <<"NAMENA">>
      [] s = "NE" -> <<"NE">>
      [] s = "Ne" -> <<"Ne">>
      [] s = "OZ" -> <<"OZ">>
      [] s = "OZNAKA" -> <<"OZNAKA">>
      [] s = "OZNAKI" -> <<"OZNAKI">>
      [] s = "OZNAKI I BROEVI - BROJ NA KONTEJNER" -> <<"OZNAKI", "I", "BROEVI", "-", "BROJ", "NA", "KONTEJNER">>
      [] s = "OZNAKI I BROEVI -BROJ NA KONTEJNER" -> <<"OZNAKI", "I", "BROEVI", "-BROJ", "NA", "KONTEJNER">>
      [] s = "OP" -> <<"OP">>
      [] s = "OPREDELENO" -> <<"OPREDELENO">>
      [] s = "OPREDELENO-24-ZZ" -> <<"OPREDELENO-24-ZZ">>
      [] s = "OR" -> <<"OR">>
      [] s = "ORGAN" -> <<"ORGAN">>
      [] s = "Oz" -> <<"Oz">>
      [] s = "Oznaki" -> <<"Oznaki">>
      [] s = "Oznaki i broevi - Broj na kontejner" -> <<"Oznaki", "i", "broevi", "-", "Broj", "na", "kontejner">>
      [] s = "Oznaki i broevi -Broj na kontejner" -> <<"Oznaki", "i", "broevi", "-Broj", "na", "kontejner">>
      [] s = "PA_cyr" -> <<"PA_cyr">>
      [] s = "PALETA" -> <<"PALETA">>
      [] s = "PALETA-14-PX" -> <<"PALETA-14-PX">>
      [] s = "PARTIZANSKA" -> <<"PARTIZANSKA">>
      [] s = "PR" -> <<"PR">>
      [] s = "PRIMACH" -> <<"PRIMACH">>
      [] s = "PRIMACH DOO" -> <<"PRIMACH", "DOO">>
      [] s = "Pa" -> <<"Pa">>
      [] s = "Paleta" -> <<"Paleta">>
      [] s = "Paleta-14-PX" -> <<"Paleta-14-PX">>
      [] s = "Partizanska" -> <<"Partizanska">>
      [] s = "Pr" -> <<"Pr">>
      [] s = "Primach" -> <<"Primach">>
      [] s = "RB" -> <<"RB">>
      [] s = "RBD" -> <<"RBD">>
      [] s = "RBD 12" -> <<"RBD", "12">>
      [] s = "RD" -> <<"RD">>
      [] s = "RDB" -> <<"RDB">>
      [] s = "RDB 5" -> <<"RDB", "5">>
      [] s = "RDB:" -> <<"RDB:">>
      [] s = "RE" -> <<"RE">>
      [] s = "REFERENTEN" -> <<"REFERENTEN">>
      [] s = "S" -> <<"S">>
      [] s = "SE" -> <<"SE">>
      [] s = "SEVERNA" -> <<"SEVERNA">>
      [] s = "SEVERNA MAKEDONIJA" -> <<"SEVERNA", "MAKEDONIJA">>
      [] s = "SK_cyr" -> <<"SK_cyr">>
      [] s = "SKOPJE" -> <<"SKOPJE">>
      [] s = "ST_cyr" -> <<"ST_cyr">>
      [] s = "STATISTICHKA" -> <<"STATISTICHKA">>
      [] s = "Sk" -> <<"Sk">>
      [] s = "Skopje" -> <<"Skopje">>
      [] s = "St_cyr" -> <<"St_cyr">>
      [] s = "Statistichka" -> <<"Statistichka">>
      [] s = "TA" -> <<"TA">>
      [] s = "TABANOVCE" -> <<"TABANOVCE">>
      [] s = "TABANOVCE-PATN." -> <<"TABANOVCE-PATN.">>
      [] s = "TARIFNA" -> <<"TARIFNA">>
      [] s = "TO" -> <<"TO">>
      [] s = "TOV.LIST" -> <<"TOV.LIST">>
      [] s = "TOV.LIST 123" -> <<"TOV.LIST", "123">>
      [] s = "TR" -> <<"TR">>
      [] s = "TRANSPORT" -> <<"TRANSPORT">>
      [] s = "Ta" -> <<"Ta">>
      [] s = "Tarifna" -> <<"Tarifna">>
      [] s = "UL" -> <<"UL">>
      [] s = "UL." -> <<"UL.">>
      [] s = "UL. PARTIZANSKA 1, SKOPJE" -> <<"UL.", "PARTIZANSKA", "1,", "SKOPJE">>
      [] s = "UL. PARTIZANSKA 1. SKOPJE" -> <<"UL.", "PARTIZANSKA", "1.", "SKOPJE">>
      [] s = "ULICA" -> <<"ULICA">>
      [] s = "ULICA 1D DOMZHALE" -> <<"ULICA", "1D", "DOMZHALE">>
      [] s = "ULICA 1D DOMZHALE 000000" -> <<"ULICA", "1D", "DOMZHALE", "000000">>
      [] s = "ULICA 1D DOMZHALE 1230" -> <<"ULICA", "1D", "DOMZHALE", "1230">>
      [] s = "FI_cyr" -> <<"FI_cyr">>
      [] s = "FIRMA" -> <<"FIRMA">>
      [] s = "FIRMA DOOEL" -> <<"FIRMA", "DOOEL">>
      [] s = "FR_cyr" -> <<"FR_cyr">>
      [] s = "FRANCIJA" -> <<"FRANCIJA">>
      [] s = "FRANCIJA FR" -> <<"FRANCIJA", "FR">>
      [] s = "CA" -> <<"CA">>
      [] s = "CARINSKI" -> <<"CARINSKI">>
      [] s = "SHI" -> <<"SHI">>
      [] s = "SHIFRA" -> <<"SHIFRA">>
      [] s = "Shi" -> <<"Shi">>
      [] s = "Shifra" -> <<"Shifra">>
      [] s = "a_cyr" -> <<"a_cyr">>
      [] s = "bi" -> <<"bi">>
      [] s = "bilesha" -> <<"bilesha">>
      [] s = "bilesha 50" -> <<"bilesha", "50">>
      [] s = "bilesha 50 1000" -> <<"bilesha", "50", "1000">>
      [] s = "br" -> <<"br">>
      [] s = "broevi" -> <<"broevi">>
      [] s = "broj" -> <<"broj">>
      [] s = "bruto" -> <<"bruto">>
      [] s = "bruto masa" -> <<"bruto", "masa">>
      [] s = "ve" -> <<"ve">>
      [] s = "ventil-1" -> <<"ventil-1">>
      [] s = "ventil-1  kom." -> <<"ventil-1", "kom.">>
      [] s = "ventil-1kom." -> <<"ventil-1kom.">>
      [] s = "vz" -> <<"vz">>
      [] s = "vzaemno" -> <<"vzaemno">>
      [] s = "vzaemno opredeleno" -> <<"vzaemno", "opredeleno">>
      [] s = "vzaemno opredeleno-24-zz" -> <<"vzaemno", "opredeleno-24-zz">>
      [] s = "vzaemno opredeleno-24-zz paleta-14-px" -> <<"vzaemno", "opredeleno-24-zz", "paleta-14-px">>
      [] s = "vi" -> <<"vi">>
      [] s = "vid" -> <<"vid">>
      [] s = "vid na transport na granica" -> <<"vid", "na", "transport", "na", "granica">>
      [] s = "vr" -> <<"vr">>
      [] s = "vrednost" -> <<"vrednost">>
      [] s = "gr" -> <<"gr">>
      [] s = "granica" -> <<"granica">>
      [] s = "de" -> <<"de">>
      [] s = "delovi" -> <<"delovi">>
      [] s = "delovi za mashini" -> <<"delovi", "za", "mashini">>
      [] s = "do" -> <<"do">>
      [] s = "domzhale" -> <<"domzhale">>
      [] s = "doo" -> <<"doo">>
      [] s = "dooel" -> <<"dooel">>
      [] s = "dopolnitelni" -> <<"dopolnitelni">>
      [] s = "ec" -> <<"ec">>
      [] s = "ecd" -> <<"ecd">>
      [] s = "za" -> <<"za">>
      [] s = "ze" -> <<"ze">>
      [] s = "zemja" -> <<"zemja">>
      [] s = "i" -> <<"i">>
      [] s = "iz" -> <<"iz">>
      [] s = "izlezen" -> <<"izlezen">>
      [] s = "in" -> <<"in">>
      [] s = "informacii" -> <<"informacii">>
      [] s = "is" -> <<"is">>
      [] s = "isprakjach/izvoznik" -> <<"isprakjach/izvoznik">>
      [] s = "ko" -> <<"ko">>
      [] s = "kom." -> <<"kom.">>
      [] s = "kontejner" -> <<"kontejner">>
      [] s = "ma" -> <<"ma">>
      [] s = "makedonija" -> <<"makedonija">>
      [] s = "masa" -> <<"masa">>
      [] s = "mashini" -> <<"mashini">>
      [] s = "mi" -> <<"mi">>
      [] s = "mikloshicheva" -> <<"mikloshicheva">>
      [] s = "mikloshicheva ulica 1d domzhale" -> <<"mikloshicheva", "ulica", "1d", "domzhale">>
      [] s = "mikloshicheva ulica 1d domzhale 00000" -> <<"mikloshicheva", "ulica", "1d", "domzhale", "00000">>
      [] s = "na" -> <<"na">>
      [] s = "namena" -> <<"namena">>
      [] s = "ne" -> <<"ne">>
      [] s = "oz" -> <<"oz">>
      [] s = "oznaka" -> <<"oznaka">>
      [] s = "oznaki" -> <<"oznaki">>
      [] s = "oznaki i broevi - broj na kontejner" -> <<"oznaki", "i", "broevi", "-", "broj", "na", "kontejner">>
      [] s = "oznaki i broevi -broj na kontejner" -> <<"oznaki", "i", "broevi", "-broj", "na", "kontejner">>
      [] s = "op" -> <<"op">>
      [] s = "opredeleno" -> <<"opredeleno">>
      [] s = "opredeleno-24-ZZ" -> <<"opredeleno-24-ZZ">>
      [] s = "opredeleno-24-zz" -> <<"opredeleno-24-zz">>
      [] s = "or" -> <<"or">>
      [] s = "organ" -> <<"organ">>
      [] s = "pa" -> <<"pa">>
      [] s = "paleta" -> <<"paleta">>
      [] s = "paleta-14-px" -> <<"paleta-14-px">>
      [] s = "partizanska" -> <<"partizanska">>
      [] s = "pr" -> <<"pr">>
      [] s = "primach" -> <<"primach">>
      [] s = "primach doo" -> <<"primach", "doo">>
      [] s = "rb" -> <<"rb">>
      [] s = "rbd" -> <<"rbd">>
      [] s = "rbd 12" -> <<"rbd", "12">>
      [] s = "rd" -> <<"rd">>
      [] s = "rdb" -> <<"rdb">>
      [] s = "rdb 5" -> <<"rdb", "5">>
      [] s = "rdb:" -> <<"rdb:">>
      [] s = "re" -> <<"re">>
      [] s = "referenten" -> <<"referenten">>
      [] s = "s" -> <<"s">>
      [] s = "se" -> <<"se">>
      [] s = "severna" -> <<"severna">>
      [] s = "severna makedonija" -> <<"severna", "makedonija">>
      [] s = "sk_cyr" -> <<"sk_cyr">>
      [] s = "skopje" -> <<"skopje">>
      [] s = "st_cyr" -> <<"st_cyr">>
      [] s = "statistichka" -> <<"statistichka">>
      [] s = "ta" -> <<"ta">>
      [] s = "tabanovce" -> <<"tabanovce">>
      [] s = "tabanovce-patn." -> <<"tabanovce-patn.">>
      [] s = "tarifna" -> <<"tarifna">>
      [] s = "to" -> <<"to">>
      [] s = "tov.list" -> <<"tov.list">>
      [] s = "tov.list 123" -> <<"tov.list", "123">>
      [] s = "tr" -> <<"tr">>
      [] s = "transport" -> <<"transport">>
      [] s = "ul" -> <<"ul">>
      [] s = "ul." -> <<"ul.">>
      [] s = "ul. Partizanska 1, Skopje" -> <<"ul.", "Partizanska", "1,", "Skopje">>
      [] s = "ul. Partizanska 1. Skopje" -> <<"ul.", "Partizanska", "1.", "Skopje">>
      [] s = "ul. partizanska 1, skopje" -> <<"ul.", "partizanska", "1,", "skopje">>
      [] s = "ul. partizanska 1. skopje" -> <<"ul.", "partizanska", "1.", "skopje">>
      [] s = "ulica" -> <<"ulica">>
      [] s = "ulica 1d domzhale" -> <<"ulica", "1d", "domzhale">>
      [] s = "ulica 1d domzhale 000000" -> <<"ulica", "1d", "domzhale", "000000">>
      [] s = "ulica 1d domzhale 1230" -> <<"ulica", "1d", "domzhale", "1230">>
      [] s = "fi_cyr" -> <<"fi_cyr">>
      [] s = "firma" -> <<"firma">>
      [] s = "firma dooel" -> <<"firma", "dooel">>
      [] s = "fr_cyr" -> <<"fr_cyr">>
      [] s = "francija" -> <<"francija">>
      [] s = "francija fr" -> <<"francija", "fr">>
      [] s = "ca" -> <<"ca">>
      [] s = "carinski" -> <<"carinski">>
      [] s = "shi" -> <<"shi">>
      [] s = "shifra" -> <<"shifra">>
      [] OTHER -> <<>>

\* [(m.group(1), m.group(2)) for m in re.finditer(p, s)], for p = r'([A-Z\d]+)-([A-Z\d/]+)'
finditer_A_Z_d_A_Z_d(p, s) ==
    IF p = "([A-Z\\d]+)-([A-Z\\d/]+)"
    THEN CASE s = " 5016-0052639" -> <<<<"5016", "0052639">>>>
           [] s = "5016-0052639" -> <<<<"5016", "0052639">>>>
           [] s = "5016-0052639 5016-0052639" -> <<<<"5016", "0052639">>, <<"5016", "0052639">>>>
           [] s = "9 5016-0052639" -> <<<<"5016", "0052639">>>>
           [] s = "AUN-MK19/2024" -> <<<<"AUN", "MK19/2024">>>>
           [] s = "AUN-MK19/2024," -> <<<<"AUN", "MK19/2024">>>>
           [] s = "AUN-MK19/2024, 5016-0052639" -> <<<<"AUN", "MK19/2024">>, <<"5016", "0052639">>>>
           [] s = "AUN-MK19/2024." -> <<<<"AUN", "MK19/2024">>>>
           [] s = "AUN-MK19/2024. 5016-0052639" -> <<<<"AUN", "MK19/2024">>, <<"5016", "0052639">>>>
           [] s = "aun-mk19/2024, 5016-0052639" -> <<<<"5016", "0052639">>>>
           [] s = "aun-mk19/2024. 5016-0052639" -> <<<<"5016", "0052639">>>>
           [] s = "VZAEMNO OPREDELENO-24-ZZ" -> <<<<"24", "ZZ">>>>
           [] s = "VZAEMNO OPREDELENO-24-ZZ PALETA-14-PX" -> <<<<"24", "ZZ">>, <<"14", "PX">>>>
           [] s = "Vzaemno opredeleno-24-ZZ" -> <<<<"24", "ZZ">>>>
           [] s = "Vzaemno opredeleno-24-ZZ Paleta-14-PX" -> <<<<"24", "ZZ">>, <<"14", "PX">>>>
           [] s = "OPREDELENO-24-ZZ" -> <<<<"24", "ZZ">>>>
           [] s = "PALETA-14-PX" -> <<<<"14", "PX">>>>
           [] s = "Paleta-14-PX" -> <<<<"14", "PX">>>>
           [] s = "opredeleno-24-ZZ" -> <<<<"24", "ZZ">>>>
           [] OTHER -> <<>>
    ELSE <<>>

\* [(m.group(1), m.group(2)) for m in re.finditer(p, s)], for p = r'([A-Z\d]+)-([A-Z\d]+/\d{4})'
finditer_A_Z_d_A_Z_d_d_4(p, s) ==
    IF p = "([A-Z\\d]+)-([A-Z\\d]+/\\d{4})"
    THEN CASE s = "AUN-MK19/2024" -> <<<<"AUN", "MK19/2024">>>>
           [] s = "AUN-MK19/2024," -> <<<<"AUN", "MK19/2024">>>>
           [] s = "AUN-MK19/2024, 5016-0052639" -> <<<<"AUN", "MK19/2024">>>>
           [] s = "AUN-MK19/2024." -> <<<<"AUN", "MK19/2024">>>>
           [] s = "AUN-MK19/2024. 5016-0052639" -> <<<<"AUN", "MK19/2024">>>>
           [] OTHER -> <<>>
    ELSE <<>>

\* [(m.group(1), m.group(2)) for m in re.finditer(p, s)], for p = r'(\w+)\(([^\)]+)\)'
finditer_w(p, s) ==
    IF p = "(\\w+)\\(([^\\)]+)\\)"
    THEN CASE s = "5007(9)" -> <<<<"5007", "9">>>>
           [] s = "5010(123)" -> <<<<"5010", "123">>>>
           [] s = "5010(123) 5010(123)" -> <<<<"5010", "123">>, <<"5010", "123">>>>
           [] s = "5016(0052639)" -> <<<<"5016", "0052639">>>>
           [] s = "5016(0052639) 5007(9)" -> <<<<"5016", "0052639">>, <<"5007", "9">>>>
           [] s = "9) 5007(9)" -> <<<<"5007", "9">>>>
           [] OTHER -> <<>>
    ELSE <<>>

-----------------------------------------------------------------------------
(* Program constants. *)

\* extract_ecd_generic.py:215  "self.data_start_index = 80"
DefaultStartGeneric == 80
\* extract_ecd_customs.py:40   "self.data_start_index = 10"
DefaultStartCustoms == 10
\* extract_ecd_generic.py:417  "search_start = max(self.data_start_index, 100)"
SearchFloorGeneric == 100
\* extract_ecd_customs.py:312  "search_start = max(self.data_start_index, 30)"
SearchFloorCustoms == 30

-----------------------------------------------------------------------------
(* Lines. *)

N == Len(lines)
\* self.lines[i], with Python's negative indexes
L(i) == IF i >= 0 THEN lines[i + 1] ELSE lines[N + i + 1]
\* self.lines[i].strip()
SL(i) == strip(L(i))

\* get_line_safe(index)
get_line_safe(index) == IF 0 <= index /\ index < N THEN SL(index) ELSE ""

\* find_next_nonempty_line(start_index, max_search), the second definition of the
\* class (it replaces the first): (index, stripped line), or (-1, "")
find_next_nonempty_line(start_index, max_search) ==
    LET i == FirstOf({j \in start_index..(min(N, start_index + max_search) - 1) :
                        SL(j) # "" /\ SL(j) \notin {"a_cyr", "b", "v", "g"}})
    IN  IF i = -1 THEN <<-1, "">> ELSE <<i, SL(i)>>

\* find_next_nonempty_line(start_index, max_search, backward=True):
\* range(start_index, max(0, start_index - max_search), -1)
find_prev_nonempty_line(start_index, max_search) ==
    LET i == LastOf({j \in (max(0, start_index - max_search) + 1)..start_index :
                       SL(j) # "" /\ SL(j) \notin {"a_cyr", "b", "v", "g"}})
    IN  IF i = -1 THEN <<-1, "">> ELSE <<i, SL(i)>>

-----------------------------------------------------------------------------
(* find_data_section *)

\* a faulty locator: two lines before the reference-number label, without max(0, ...)
find_data_section_unclamped ==
    LET decl == FirstOf({i \in 0..(N - 1) :
                           \/ match_EX_IM_A_Z_2("^(EX|IM)[A-Z]{2}$", SL(i))
                           \/ search_b_EX_IM_A_Z_2_b("\\b(EX|IM)[A-Z]{2}\\b", L(i))})
        lrn == FirstOf({i \in 0..(N - 1) :
                          isin_LRN_2("LRN :", L(i)) \/ isin_LRN_3("LRN:", L(i)) \/ isin_LRN("LRN ", L(i))})
    IN  IF decl # -1 THEN decl
        ELSE IF lrn # -1 THEN lrn - 2
        ELSE DefaultStartGeneric

\* ECDExtractorGeneric.find_data_section: the value stored in data_start_index
find_data_section_generic ==
    LET decl == FirstOf({i \in 0..(N - 1) :
                           \/ match_EX_IM_A_Z_2("^(EX|IM)[A-Z]{2}$", SL(i))
                           \/ search_b_EX_IM_A_Z_2_b("\\b(EX|IM)[A-Z]{2}\\b", L(i))})
        lrn == FirstOf({i \in 0..(N - 1) :
                          isin_LRN_2("LRN :", L(i)) \/ isin_LRN_3("LRN:", L(i)) \/ isin_LRN("LRN ", L(i))})
    IN  IF decl # -1 THEN decl
        ELSE IF lrn # -1 THEN max(0, lrn - 2)
        ELSE DefaultStartGeneric

\* ECDExtractorCustoms.find_data_section
find_data_section_customs ==
    LET hit == FirstOf({i \in 0..(N - 1) :
                          \/ match_EX_IM_A_Z_2("^(EX|IM)[A-Z]{2}$", SL(i))
                          \/ isin_Consignor_Exporter_2("Consignor/Exporter", L(i))
                          \/ isin_Consignor_Exporter("Consignor / Exporter", L(i))})
    IN  IF hit = -1 THEN DefaultStartCustoms
        ELSE IF match_EX_IM_A_Z_2("^(EX|IM)[A-Z]{2}$", SL(hit)) THEN max(0, hit - 5)
        ELSE hit

find_data_section ==
    IF variant = "generic" THEN find_data_section_generic ELSE find_data_section_customs

-----------------------------------------------------------------------------
(* extract_gooitegds *)

\* _create_empty_item()
create_empty_item ==
    [IteNumGDS7 |-> S("1"), GroMasGDS46 |-> None, GooDesGDS23 |-> S(""),
     UNDanGooCodGDI1 |-> None, COMCODGODITM |-> [ComNomCMD1 |-> S("")],
     PACGS2 |-> <<>>, PRODOCDC2 |-> <<>>]

\* a faulty numbering: enumerate(commodity_positions) without the start value 1
new_item_from_zero(item_num, commodity_code) ==
    [IteNumGDS7 |-> S(str(item_num - 1)), GroMasGDS46 |-> None, GooDesGDS23 |-> S(""),
     UNDanGooCodGDI1 |-> None, COMCODGODITM |-> [ComNomCMD1 |-> S(commodity_code)],
     PACGS2 |-> <<>>, PRODOCDC2 |-> <<>>]

\* the item as the loop body creates it, before its fields are filled in
new_item(item_num, commodity_code) ==
    [IteNumGDS7 |-> S(str(item_num)), GroMasGDS46 |-> None, GooDesGDS23 |-> S(""),
     UNDanGooCodGDI1 |-> None, COMCODGODITM |-> [ComNomCMD1 |-> S(commodity_code)],
     PACGS2 |-> <<>>, PRODOCDC2 |-> <<>>]

package(pack_type, num_packages) ==
    [KinOfPacGS23 |-> S(pack_type), NumOfPacGS24 |-> S(num_packages),
     MarNumOfPacGS21 |-> None]

document(doc_type, doc_ref) == [DocTypDC21 |-> S(doc_type), DocRefDC23 |-> S(doc_ref)]

\* a faulty first line: the section offset without the floor
search_start_unfloored == data_start_index

\* the first line the generic segmenter scans
search_start_generic == max(data_start_index, SearchFloorGeneric)

\* commodity_positions of the generic segmenter: the indexes, ascending
\* (the code of position i is self.lines[i].strip())
commodity_positions_generic ==
    Asc({i \in search_start_generic..(N - 1) : match_d_8("^\\d{8}$", SL(i))})

\* "Opis na stoka": the description of the item whose landmark is at commodity_index
description_generic(commodity_index, item_end) ==
    LET pal == FirstOf({i \in commodity_index..(min(commodity_index + 10, item_end) - 1) :
                          isin_Paleta("Paleta", L(i)) \/ isin_paleta("paleta", lower(L(i)))})
        desc == IF pal = -1 THEN "" ELSE find_next_nonempty_line(pal + 1, 3)[2]
        after_paleta == IF desc # "" /\ len(desc) > 5
                        THEN sub_1_s_kom_1kom("-1\\s+kom\\.", "-1kom.", desc) ELSE ""
        j == FirstOf({k \in (commodity_index + 1)..(min(commodity_index + 5, item_end) - 1) :
                        /\ len(SL(k)) > 10
                        /\ ~isdigit(SL(k))
                        /\ ~match_A_Z_2("^[A-Z]{2}$", SL(k))})
    IN  IF after_paleta # "" THEN after_paleta
        ELSE IF j # -1 THEN SL(j)
        ELSE ""

\* the line of the item's window that holds a package type, or -1
package_line_generic(item_start, item_end) ==
    FirstOf({i \in item_start..(item_end - 1) :
               SL(i) \in {"PX", "CT", "BX", "PA", "PK", "CS", "CR"}})

\* "Bruto masa": the second non-empty line after the package type, as a float
gross_mass_generic(i) ==
    LET num1 == find_next_nonempty_line(i + 1, 3)
        num2 == find_next_nonempty_line(num1[1] + 1, 3)
    IN  IF i = -1 \/ num1[2] = "" \/ num2[2] = "" THEN None
        ELSE IF float(replace_1(",", ".", num2[2])) = "ValueError" THEN None
        ELSE F(float(replace_1(",", ".", num2[2])))

\* "pakuvanje": the package read around the package type at line i
packages_generic(i) ==
    LET num_packages == find_prev_nonempty_line(i - 1, 1)[2]
    IN  IF i # -1 /\ num_packages # "" /\ isdigit(num_packages)
        THEN <<package(SL(i), num_packages)>>
        ELSE <<>>

\* a faulty loop over temp_docs: every pair is appended
all_docs(docs, seen) == docs

RECURSIVE unique_docs(_, _)
\* the loop over temp_docs with the set "seen": a (type, reference) pair is
\* appended the first time it is met
unique_docs(docs, seen) ==
    IF docs = <<>> THEN <<>>
    ELSE IF Head(docs) \in seen THEN unique_docs(Tail(docs), seen)
    ELSE <<Head(docs)>> \o unique_docs(Tail(docs), seen \cup {Head(docs)})

\* "Previous documents" of the first item: the matches of the whole text, in text
\* order, of a known type other than 5007, each pair once
documents_generic ==
    LET cited == Asc({k \in 1..N : finditer_w("(\\w+)\\(([^\\)]+)\\)", lines[k]) # <<>>})
        found == Flatten([j \in 1..Len(cited) |->
                             finditer_w("(\\w+)\\(([^\\)]+)\\)", lines[cited[j]])])
        temp_docs == SelectSeq(found, LAMBDA d :
                        d[1] \in {"5010", "5016", "5009", "5007", "POAN", "5069", "AUN",
                                  "5077", "T1"})
        kept == SelectSeq(temp_docs, LAMBDA d : d[1] # "5007")
        uniq == unique_docs(kept, {})
    IN  [k \in 1..Len(uniq) |-> document(uniq[k][1], uniq[k][2])]

\* one pass of the loop "for item_num, (commodity_index, commodity_code) in ..."
item_generic(item_num, positions) ==
    LET commodity_index == positions[item_num]
        next_commodity_index == IF item_num < Len(positions) THEN positions[item_num + 1] ELSE N
        item_start == max(0, commodity_index - 30)
        item_end == min(N, next_commodity_index)
        pack == package_line_generic(item_start, item_end)
    IN  [new_item(item_num, SL(commodity_index)) EXCEPT
            !.GooDesGDS23 = S(description_generic(commodity_index, item_end)),
            !.GroMasGDS46 = gross_mass_generic(pack),
            !.PACGS2 = packages_generic(pack),
            !.PRODOCDC2 = IF item_num = 1 THEN documents_generic ELSE <<>>]

\* a faulty segmenter: no placeholder item when there is no landmark
items_without_placeholder ==
    [k \in 1..Len(commodity_positions_generic) |->
        item_generic(k, commodity_positions_generic)]

\* the items extract_gooitegds (generic) appends to data["GOOITEGDS"]
items_generic ==
    LET positions == commodity_positions_generic
    IN  IF positions = <<>> THEN <<create_empty_item>>
        ELSE [k \in 1..Len(positions) |-> item_generic(k, positions)]

\* ---- customs layout

search_start_customs == max(data_start_index, SearchFloorCustoms)

\* the test of combined_line at line i (the line and the next one, joined by a
\* space): each literal lies within one of the two lines
tariff_label_at(i) ==
    LET a == SL(i)
        b == IF i + 1 < N THEN SL(i + 1) ELSE ""
    IN  \/ isin_33_Tarifn("33 Tarifn", a) \/ isin_33_Tarifn("33 Tarifn", b)
        \/ isin_33_Tarifna_oznaka("33 Tarifna oznaka", a) \/ isin_33_Tarifna_oznaka("33 Tarifna oznaka", b)
        \/ /\ isin_Tarifna_oznaka("Tarifna oznaka", a) \/ isin_Tarifna_oznaka("Tarifna oznaka", b)
           /\ isin_32("32", a) \/ isin_32("32", b)

\* "any(abs(pos[0] - j) < 2 and pos[1] == commodity_code for pos in commodity_positions)"
already_found(positions, j, commodity_code) ==
    \E k \in 1..Len(positions) :
        /\ positions[k][1] - j < 2 /\ j - positions[k][1] < 2
        /\ positions[k][2] = commodity_code

\* the inner loop at label line i: the first line of the next four that carries an
\* 8-digit code not found already, or -1
code_line_after(i, positions) ==
    FirstOf({j \in (i + 1)..(min(i + 5, N) - 1) :
               /\ search_b_d_8_b("\\b(\\d{8})\\b", SL(j))
               /\ ~already_found(positions, j, group_b_d_8_b_1("\\b(\\d{8})\\b", 1, SL(j)))})

RECURSIVE scan_labels(_, _)
\* the while loop over the label lines, ascending; positions are (line, code) pairs
scan_labels(labels, positions) ==
    IF labels = <<>> THEN positions
    ELSE LET j == code_line_after(Head(labels), positions)
         IN  scan_labels(Tail(labels),
                         IF j = -1 THEN positions
                         ELSE Append(positions, <<j, group_b_d_8_b_1("\\b(\\d{8})\\b", 1, SL(j))>>))

\* commodity_positions of the customs segmenter
commodity_positions_customs ==
    scan_labels(Asc({i \in search_start_customs..(N - 1) : tariff_label_at(i)}), <<>>)

\* the lines the backward scan for the description steps over
description_skipped(line) ==
    \/ isin_Oznaki_i_broevi("Oznaki i broevi", line) \/ line = "32" \/ line = "Ne"
    \/ startswith_33("33 ", line) \/ isdigit(line)
    \/ search_Vzaemno_opredeleno_Palet("(Vzaemno opredeleno|Paleta|Karton|Kutija|Sandak)-\\d+-[A-Z]{2}", line)
    \/ isin_na_stoka("na stoka", line) \/ isin_opis("opis", line) \/ isin_Koleti("Koleti", line)
    \/ startswith_31("31 ", line)

\* a line that looks like a description
looks_like_description(line) ==
    /\ line # "" /\ len(line) >= 5
    /\ has_cyrillic(line) \/ has_upper(line)
    /\ ~startswith_32("32 ", line) /\ ~startswith_33("33 ", line) /\ ~startswith_34("34 ", line)
    /\ ~startswith_35("35 ", line) /\ ~startswith_37("37 ", line) /\ ~startswith_38("38 ", line)
    /\ ~startswith_39("39 ", line) /\ ~startswith_40("40 ", line) /\ ~startswith_41("41 ", line)
    /\ ~startswith_44("44 ", line) /\ ~startswith_46("46 ", line)
    /\ ~isin_Bruto_masa("Bruto masa", line) /\ ~isin_Neto_masa("Neto masa", line)
    /\ ~isin_Kvota("Kvota", line) /\ ~isin_POSTAPKA("POSTAPKA", line)
    /\ ~match_d_d("^\\d+\\.?\\d*$", line)
    /\ ~match_A_Z_2("^[A-Z]{2}$", line)

\* "Opis na stoka": the nearest line before the landmark that looks like a description
description_customs(commodity_index) ==
    LET i == LastOf({k \in (max(0, commodity_index - 15) + 1)..(commodity_index - 1) :
                       ~description_skipped(SL(k)) /\ looks_like_description(SL(k))})
    IN  IF i = -1 THEN "" ELSE strip(rstrip_1(",", SL(i)))

\* "Bruto masa" of an item window
gross_mass_customs(item_start, item_end) ==
    LET i == FirstOf({k \in item_start..(item_end - 1) : isin_35_Bruto_masa("35 Bruto masa", L(k))})
        j == IF i = -1 THEN -1
             ELSE FirstOf({k \in (i + 1)..(min(i + 10, item_end) - 1) :
                             search_d_d("(\\d+\\.?\\d*)", SL(k))})
    IN  IF j = -1 THEN None ELSE F(float(group_d_d_1("(\\d+\\.?\\d*)", 1, SL(j))))

\* the older packaging format matches the line
old_format(line) ==
    isin_Vzaemno_opredeleno("Vzaemno opredeleno", line) /\ search_opredeleno_d_A_Z_2("opredeleno-(\\d+)-([A-Z]{2})", line)

\* the newer packaging format matches the line
new_format(line) ==
    search_Paleta_Karton_Kutija_San("(Paleta|Karton|Kutija|Sandak|Vreka|Kontejner)-(\\d+)-([A-Z]{2})", line)

\* a faulty order: the newer format is tried first
pack_of_newer_first(line) ==
    IF new_format(line)
    THEN package(group_Paleta_Karton_Kutija_San_2("(Paleta|Karton|Kutija|Sandak|Vreka|Kontejner)-(\\d+)-([A-Z]{2})", 3, line),
                 group_Paleta_Karton_Kutija_San("(Paleta|Karton|Kutija|Sandak|Vreka|Kontejner)-(\\d+)-([A-Z]{2})", 2, line))
    ELSE package(group_opredeleno_d_A_Z_2_2("opredeleno-(\\d+)-([A-Z]{2})", 2, line),
                 group_opredeleno_d_A_Z_2_1("opredeleno-(\\d+)-([A-Z]{2})", 1, line))

\* the package of a line one of the formats matches: the older format is tried first
pack_of(line) ==
    IF old_format(line)
    THEN package(group_opredeleno_d_A_Z_2_2("opredeleno-(\\d+)-([A-Z]{2})", 2, line),
                 group_opredeleno_d_A_Z_2_1("opredeleno-(\\d+)-([A-Z]{2})", 1, line))
    ELSE package(group_Paleta_Karton_Kutija_San_2("(Paleta|Karton|Kutija|Sandak|Vreka|Kontejner)-(\\d+)-([A-Z]{2})", 3, line),
                 group_Paleta_Karton_Kutija_San("(Paleta|Karton|Kutija|Sandak|Vreka|Kontejner)-(\\d+)-([A-Z]{2})", 2, line))

\* the line the packaging loop "for i in range(item_start, commodity_index + 3)" stops at, or -1
package_line_customs(item_start, commodity_index) ==
    FirstOf({i \in item_start..(min(commodity_index + 3, N) - 1) :
               old_format(SL(i)) \/ new_format(SL(i))})

\* the packaging loop reads self.lines[i] with i >= len(self.lines): IndexError
packaging_raises(item_start, commodity_index) ==
    /\ package_line_customs(item_start, commodity_index) = -1
    /\ commodity_index + 3 > N

packages_customs(item_start, commodity_index) ==
    LET i == package_line_customs(item_start, commodity_index)
    IN  IF i = -1 THEN <<>> ELSE <<pack_of(SL(i))>>

RECURSIVE found_docs(_, _)
\* the loops over doc_patterns and matches with the set "found_docs" of keys
\* "type-reference": a match of a known type is appended unless its key was seen
found_docs(matches, seen) ==
    IF matches = <<>> THEN <<>>
    ELSE LET doc_key == Head(matches)[1] \o "-" \o Head(matches)[2]
         IN  IF /\ doc_key \notin seen
                /\ Head(matches)[1] \in {"AUN", "POAN", "5016", "5011", "Y024", "5010",
                                         "5069", "T010", "E042", "2037"}
             THEN <<Head(matches)>> \o found_docs(Tail(matches), seen \cup {doc_key})
             ELSE found_docs(Tail(matches), seen)

\* the matches of doc_patterns[n] in doc_text, the buffer lines joined by spaces
\* (a match lies within one line of the buffer)
doc_matches(n, buffer) ==
    Flatten([k \in 1..Len(buffer) |->
                LET doc_text == sub_s("-\\s+", "-", SL(buffer[k]))
                IN  IF n = 1 THEN finditer_A_Z_d_A_Z_d_d_4("([A-Z\\d]+)-([A-Z\\d]+/\\d{4})", doc_text)
                    ELSE finditer_A_Z_d_A_Z_d("([A-Z\\d]+)-([A-Z\\d/]+)", doc_text)])

\* "44 Dopolnitelni informacii": the documents of an item
documents_customs(commodity_index, item_end) ==
    LET i == FirstOf({k \in commodity_index..(min(commodity_index + 35, item_end) - 1) :
                        isin_44_Dopolnitelni("44 Dopolnitelni", SL(k))})
        range == (i + 1)..(min(i + 6, N) - 1)
        stop == FirstOf({j \in range :
                           \/ startswith_46("46 ", SL(j)) \/ startswith_47("47 ", SL(j))
                           \/ startswith_31("31 ", SL(j)) \/ startswith_Shifr("Shifr", SL(j))})
        buffer == Asc({j \in range :
                         /\ stop = -1 \/ j < stop
                         /\ ~(isin_informacii("informacii", SL(j)) \/ isin_prolozheni("prolozheni", SL(j)))})
        matches == doc_matches(1, buffer) \o doc_matches(2, buffer)
        docs == found_docs(matches, {})
    IN  IF i = -1 THEN <<>>
        ELSE [k \in 1..Len(docs) |-> document(docs[k][1], docs[k][2])]

item_customs(item_num, positions) ==
    LET commodity_index == positions[item_num][1]
        next_commodity_index ==
            IF item_num < Len(positions) THEN positions[item_num + 1][1] ELSE N
        item_start == max(0, commodity_index - 10)
        item_end == min(N, next_commodity_index)
    IN  [new_item(item_num, positions[item_num][2]) EXCEPT
            !.GooDesGDS23 = S(description_customs(commodity_index)),
            !.GroMasGDS46 = gross_mass_customs(item_start, item_end),
            !.PACGS2 = packages_customs(item_start, commodity_index),
            !.PRODOCDC2 = documents_customs(commodity_index, item_end)]

\* the first item whose packaging loop raises IndexError, or 0
raising_item_customs ==
    LET positions == commodity_positions_customs
        bad == {k \in 1..Len(positions) :
                  packaging_raises(max(0, positions[k][1] - 10), positions[k][1])}
    IN  IF bad = {} THEN 0 ELSE Min(bad)

\* the items extract_gooitegds (customs) has appended when it returns or raises:
\* an item is appended at the end of its pass of the loop
items_customs ==
    LET positions == commodity_positions_customs
        done == IF raising_item_customs = 0 THEN Len(positions) ELSE raising_item_customs - 1
    IN  IF positions = <<>> THEN <<create_empty_item>>
        ELSE [k \in 1..done |-> item_customs(k, positions)]

-----------------------------------------------------------------------------
(* extract_heahea *)

\* "range(self.data_start_index, min(len(self.lines), self.data_start_index + width))"
window(width) == data_start_index..(min(N, data_start_index + width) - 1)

\* the line before the first line equal to KGM, or "" when there is none
mass_line_generic ==
    LET i == FirstOf({k \in 0..(N - 1) : SL(k) = "KGM"})
    IN  IF i = -1 THEN "" ELSE get_line_safe(i - 1)

\* int(mass_line) raises ValueError: extract_heahea does not return
heahea_raises_generic == isdigit(mass_line_generic) /\ int_raises(mass_line_generic)

\* "Total gross mass"
total_gross_mass_generic(h) ==
    IF isdigit(mass_line_generic)
    THEN Put(h, "TotGroMasHEA307", I(int(mass_line_generic)))
    ELSE h

\* "Identity of means of transport" and the nationality on the next non-empty line
transport_identity_generic(h) ==
    LET i == FirstOf({k \in window(50) :
                        match_A_Z_2_d_4_A_Z_2_A_Z_2_d("^([A-Z]{2}\\d{4}[A-Z]{2}(?:/[A-Z]{2}\\d{4}[A-Z]{2})?)$", SL(k))})
        next_line == find_next_nonempty_line(i + 1, 3)[2]
        h1 == Put(h, "IdeOfMeaOfTraAtDHEA78",
                  S(group_A_Z_2_d_4_A_Z_2_A_Z_2_d_2("^([A-Z]{2}\\d{4}[A-Z]{2}(?:/[A-Z]{2}\\d{4}[A-Z]{2})?)$", 1, SL(i))))
    IN  IF i = -1 THEN h
        ELSE IF next_line # "" /\ match_A_Z_2("^[A-Z]{2}$", next_line)
        THEN Put(h1, "NatOfMeaOfTraCroHEA87", S(next_line))
        ELSE h1

\* "Mode of transport at the border": the last candidate wins
transport_mode_generic(h) ==
    LET mode_candidates ==
            {i \in window(50) :
                /\ SL(i) \in {"1", "2", "3", "4", "5", "6", "7", "8", "9"}
                /\ \/ match_A_Z_2_3("^[A-Z]{2,3}$", get_line_safe(i - 1))
                   \/ isin_EUR("EUR", get_line_safe(i + 1))
                   \/ isin_USD("USD", get_line_safe(i + 1))}
    IN  IF mode_candidates = {} THEN h
        ELSE Put(h, "TraModAtBorHEA76", S(SL(Max(mode_candidates))))

\* the line names the domestic country
names_macedonia(line) ==
    isin_SEVERNA_MAKEDONIJA("SEVERNA MAKEDONIJA", line) \/ isin_MAKEDONIJA("MAKEDONIJA", line) \/ isin_MACEDONIA("MACEDONIA", line)

\* "Country of dispatch code": the code after a country-name line ends the loop; a bare
\* MK line met before that is kept when the field is not set yet
dispatch_country_generic(h) ==
    LET named == FirstOf({i \in window(50) :
                            /\ names_macedonia(SL(i))
                            /\ LET next_line == find_next_nonempty_line(i + 1, 3)[2]
                               IN  next_line # "" /\ match_A_Z_2("^[A-Z]{2}$", next_line)})
        bare == {i \in window(50) :
                    /\ named = -1 \/ i < named
                    /\ ~names_macedonia(SL(i))
                    /\ SL(i) = "MK" /\ i > data_start_index + 15
                    /\ ~startswith_MK("MK", get_line_safe(i - 1))
                    /\ ~isdigit(get_line_safe(i - 1))}
        h1 == IF bare # {} /\ ~Has(h, "CouOfDisCodHEA55")
              THEN Put(h, "CouOfDisCodHEA55", S("MK")) ELSE h
    IN  IF named = -1 THEN h1
        ELSE Put(h1, "CouOfDisCodHEA55", S(find_next_nonempty_line(named + 1, 3)[2]))

\* "any(country in line for country in country_names)"
names_country(line) ==
    \/ isin_FRANCIJA("FRANCIJA", line) \/ isin_GERMANIJA("GERMANIJA", line) \/ isin_FRANCE_2("FRANCE_cyr", line)
    \/ isin_FRANCE("FRANCE", line) \/ isin_GERMANY("GERMANY", line) \/ isin_ITALIA("ITALIA", line)
    \/ isin_ITALIJA("ITALIJA", line)

\* a faulty search: the domestic code is taken as well
code_after_country_any(i) ==
    FirstOf({j \in (i + 1)..(min(N, i + 5) - 1) : match_A_Z_2("^[A-Z]{2}$", SL(j))})

\* the first two-letter code other than MK in the four lines after line i, or -1
code_after_country(i) ==
    FirstOf({j \in (i + 1)..(min(N, i + 5) - 1) :
               match_A_Z_2("^[A-Z]{2}$", SL(j)) /\ SL(j) # "MK"})

\* "Country of destination code"
destination_country_generic(h) ==
    LET i == FirstOf({k \in window(50) : names_country(SL(k)) /\ code_after_country(k) # -1})
    IN  IF Has(h, "CouOfDesCodHEA30") \/ i = -1 THEN h
        ELSE Put(h, "CouOfDesCodHEA30", S(SL(code_after_country(i))))

\* "Container indicator"
container_generic(h) ==
    LET i == FirstOf({k \in window(50) :
                        /\ SL(k) \in {"0", "1"}
                        /\ find_next_nonempty_line(k + 1, 3)[2]
                               \in {"CPT", "CIF", "FOB", "EXW", "FCA", "DAP"}})
    IN  IF i = -1 THEN h ELSE Put(h, "ConIndHEA96", S(SL(i)))

\* "Declaration place"
declaration_place_generic(h) ==
    LET named(k) == LET next_line == find_next_nonempty_line(k + 1, 2)[2]
                    IN  next_line # "" /\ len(next_line) > 3 /\ ~isdigit(next_line)
        i == FirstOf({k \in window(50) : match_d_4("^\\d{4}$", SL(k)) /\ named(k)})
    IN  IF i = -1 THEN h
        ELSE Put(h, "DecPlaHEA394",
                 S(SL(i) \o " " \o find_next_nonempty_line(i + 1, 2)[2]))

\* ECDExtractorGeneric.extract_heahea: data["HEAHEA"] when it returns
extract_heahea_generic(h) ==
    declaration_place_generic(
      container_generic(
        destination_country_generic(
          dispatch_country_generic(
            transport_mode_generic(
              transport_identity_generic(
                total_gross_mass_generic(h)))))))

\* ---- customs layout

\* "Total gross mass": the first number in the four lines after the first mass label
total_gross_mass_customs(h) ==
    LET i == FirstOf({k \in 0..(N - 1) : isin_Bruto_masa("Bruto masa", L(k))})
        j == IF i = -1 THEN -1
             ELSE FirstOf({k \in (i + 1)..(min(i + 5, N) - 1) :
                             search_d_d("(\\d+\\.?\\d*)", SL(k))})
    IN  IF j = -1 THEN h
        ELSE Put(h, "TotGroMasHEA307", F(float(group_d_d_1("(\\d+\\.?\\d*)", 1, SL(j)))))

transport_identity_customs(h) ==
    LET i == FirstOf({k \in window(80) :
                        search_A_Z_2_d_4_A_Z_2_A_Z_2_d("([A-Z]{2}\\d{4}[A-Z]{2}(?:/[A-Z]{2}\\d{4}[A-Z]{2})?)", SL(k))})
        rest_of_line == rest_A_Z_2_d_4_A_Z_2_A_Z_2_d("([A-Z]{2}\\d{4}[A-Z]{2}(?:/[A-Z]{2}\\d{4}[A-Z]{2})?)", SL(i))
        next_line == find_next_nonempty_line(i + 1, 3)[2]
        h1 == Put(h, "IdeOfMeaOfTraAtDHEA78",
                  S(group_A_Z_2_d_4_A_Z_2_A_Z_2_d("([A-Z]{2}\\d{4}[A-Z]{2}(?:/[A-Z]{2}\\d{4}[A-Z]{2})?)", 1, SL(i))))
    IN  IF i = -1 THEN h
        ELSE IF match_A_Z_2_s("^([A-Z]{2})\\s", rest_of_line)
        THEN Put(h1, "NatOfMeaOfTraCroHEA87", S(group_A_Z_2_s_1("^([A-Z]{2})\\s", 1, rest_of_line)))
        ELSE IF next_line # "" /\ match_A_Z_2("^[A-Z]{2}$", next_line)
        THEN Put(h1, "NatOfMeaOfTraCroHEA87", S(next_line))
        ELSE h1

\* the first mode digit in the lines i-2..i+2, or -1
mode_near(i) ==
    FirstOf({j \in max(0, i - 2)..(min(N, i + 3) - 1) :
               SL(j) \in {"1", "2", "3", "4", "5", "6", "7", "8", "9"}})

transport_mode_customs(h) ==
    LET i == FirstOf({k \in 0..(N - 1) :
                        /\ isin_na_granica("na granica", L(k)) \/ isin_Vid_na("Vid na", L(k))
                        /\ mode_near(k) # -1})
    IN  IF Has(h, "TraModAtBorHEA76") \/ i = -1 THEN h
        ELSE Put(h, "TraModAtBorHEA76", S(SL(mode_near(i))))

dispatch_country_customs(h) ==
    LET found == \E i \in 0..(N - 1) :
                    /\ isin_Zemja_na_poagjanje("Zemja na poagjanje", L(i)) \/ isin_15_Shifra_na_zemja("15 Shifra na zemja", L(i))
                    /\ \E j \in i..(min(N, i + 10) - 1) : isin_a_MK("a MK", L(j)) \/ SL(j) = "MK"
    IN  IF found THEN Put(h, "CouOfDisCodHEA55", S("MK")) ELSE h

\* the first line of the four after line i whose first two-letter word is a foreign
\* code, or -1
dest_code_near(i) ==
    FirstOf({j \in (i + 1)..(min(N, i + 5) - 1) :
               /\ search_b_A_Z_2_b("\\b([A-Z]{2})\\b", SL(j))
               /\ group_b_A_Z_2_b_1("\\b([A-Z]{2})\\b", 1, SL(j)) \notin {"MK", "BR", "UL", "SI"}})

\* the first bare foreign code in the fourteen lines after line i, or -1
receiver_code_near(i) ==
    FirstOf({j \in (i + 1)..(min(N, i + 15) - 1) :
               match_A_Z_2("^[A-Z]{2}$", SL(j)) /\ SL(j) \notin {"MK", "BR", "UL"}})

destination_country_customs(h) ==
    LET i == FirstOf({k \in 0..(N - 1) :
                        /\ isin_17_Zemja_na_namena("17 Zemja na namena", L(k)) \/ isin_Zemja_na_namena("Zemja na namena", L(k))
                        /\ dest_code_near(k) # -1})
        h1 == IF Has(h, "CouOfDesCodHEA30") \/ i = -1 THEN h
              ELSE Put(h, "CouOfDesCodHEA30",
                       S(group_b_A_Z_2_b_1("\\b([A-Z]{2})\\b", 1, SL(dest_code_near(i)))))
        r == FirstOf({k \in 0..(N - 1) : isin_8_Primach("8 Primach", L(k))})
    IN  IF Has(h1, "CouOfDesCodHEA30") \/ r = -1 \/ receiver_code_near(r) = -1 THEN h1
        ELSE Put(h1, "CouOfDesCodHEA30", S(SL(receiver_code_near(r))))

\* the tests of next_context and prev_context (lines joined by spaces): each literal
\* lies within one line
container_context(i) ==
    \/ \E j \in (i + 1)..(min(N, i + 4) - 1) :
          isin_DAP("DAP", L(j)) \/ isin_FCA("FCA", L(j)) \/ isin_CPT("CPT", L(j))
    \/ \E j \in max(0, i - 3)..(i - 1) : isin_transport("transport", lower(L(j)))

container_customs(h) ==
    LET i == FirstOf({k \in window(60) :
                        (SL(k) = "0" \/ SL(k) = "1") /\ container_context(k)})
    IN  IF i = -1 THEN h ELSE Put(h, "ConIndHEA96", S(SL(i)))

place_near(i) ==
    FirstOf({j \in (i + 1)..(min(N, i + 5) - 1) : search_MK_d_6("(MK)?(\\d{6})", SL(j))})

declaration_place_customs(h) ==
    LET i == FirstOf({k \in 0..(N - 1) :
                        /\ isin_Izlezen_carinski_organ("Izlezen carinski organ", L(k)) \/ isin_29_Izlezen("29 Izlezen", L(k))
                        /\ place_near(k) # -1})
        place_line == SL(place_near(i))
        code == group_MK_d_6_2("(MK)?(\\d{6})", 2, place_line)
        remaining == rest_MK_d_6("(MK)?(\\d{6})", place_line)
    IN  IF Has(h, "DecPlaHEA394") \/ i = -1 THEN h
        ELSE IF remaining # "" THEN Put(h, "DecPlaHEA394", S(code \o " " \o remaining))
        ELSE Put(h, "DecPlaHEA394", S(code))

\* ECDExtractorCustoms.extract_heahea
extract_heahea_customs(h) ==
    declaration_place_customs(
      container_customs(
        destination_country_customs(
          dispatch_country_customs(
            transport_mode_customs(
              transport_identity_customs(
                total_gross_mass_customs(h)))))))

extract_heahea(h) ==
    IF variant = "generic" THEN extract_heahea_generic(h) ELSE extract_heahea_customs(h)

\* extract_heahea raises instead of returning
heahea_raises == variant = "generic" /\ heahea_raises_generic

-----------------------------------------------------------------------------
(* extract_traexpex1: the sender *)

\* the sender's TIN line, the anchor (generic), or -1
sender_anchor_generic ==
    FirstOf({i \in window(20) : match_A_Z_2_d_13("^([A-Z]{2}\\d{13})$", SL(i))})

\* the fields the loop sets once the anchor is found
sender_fields_generic(t, i) ==
    LET next == find_next_nonempty_line(i + 1, 2)
        next_line2 == find_next_nonempty_line(next[1] + 1, 2)[2]
        is_address == /\ next_line2 # ""
                      /\ \/ isin_ul("ul.", next_line2) \/ isin_bul("bul.", next_line2)
                         \/ isin_str("str.", lower(next_line2))
        t1 == Put(t, "TINEX159", S(group_A_Z_2_d_13_1_2("^([A-Z]{2}\\d{13})$", 1, SL(i))))
        t2 == IF next[2] # "" THEN Put(t1, "NamEX17", S(next[2])) ELSE t1
        t3 == IF is_address THEN Put(t2, "StrAndNumEX122", S(next_line2)) ELSE t2
    IN  IF is_address /\ isin_1(",", next_line2)
        THEN Put(t3, "CitEX124", S(strip(split_last_1(",", next_line2))))
        ELSE t3

\* the country, from the TIN's first two letters; Cyrillic for MK
sender_country_generic(t) ==
    IF ~Has(t, "TINEX159") THEN t
    ELSE IF prefix_2(2, t["TINEX159"].s) = "MK" THEN Put(t, "CouEX125", S("MK_cyr"))
    ELSE Put(t, "CouEX125", S(prefix_2(2, t["TINEX159"].s)))

\* ECDExtractorGeneric.extract_traexpex1: data["TRAEXPEX1"] when it returns
extract_traexpex1_generic(t) ==
    LET i == sender_anchor_generic
        t1 == IF i = -1 THEN t ELSE sender_fields_generic(t, i)
    IN  sender_country_generic(Put(t1, "PosCodEX123", None))

\* the first sender-label line (customs), or -1
sender_anchor_customs ==
    FirstOf({i \in 0..(N - 1) : isin_Consignor_Exporter_2("Consignor/Exporter", L(i)) \/ isin_2_Consignor("2 Consignor", L(i))})

\* the postal code: at the end of the address, or else on one of the lines i+5..i+9
sender_postal_customs(t, i) ==
    LET addr == t["StrAndNumEX122"].s
        j == FirstOf({k \in (i + 5)..(min(i + 10, N) - 1) :
                        isdigit(SL(k)) /\ len(SL(k)) >= 4 /\ len(SL(k)) <= 5})
    IN  IF ~Has(t, "StrAndNumEX122") THEN t
        ELSE IF search_s_d_4_5_s("\\s(\\d{4,5})\\s*$", addr)
        THEN Put(t, "PosCodEX123", S(group_s_d_4_5_s_1("\\s(\\d{4,5})\\s*$", 1, addr)))
        ELSE IF j # -1 THEN Put(t, "PosCodEX123", S(SL(j)))
        ELSE t

sender_fields_customs(t, i) ==
    LET t1 == IF i + 1 < N /\ SL(i + 1) # "" /\ len(SL(i + 1)) > 3 /\ SL(i + 1) # "Ne"
              THEN Put(t, "NamEX17", S(SL(i + 1))) ELSE t
        t2 == IF i + 2 < N /\ SL(i + 2) # "" /\ SL(i + 2) # "Ne"
              THEN Put(t1, "StrAndNumEX122", S(SL(i + 2))) ELSE t1
        t3 == IF i + 4 < N /\ search_A_Z_2_d_13("([A-Z]{2}\\d{13})", SL(i + 4))
              THEN Put(t2, "TINEX159", S(group_A_Z_2_d_13_1("([A-Z]{2}\\d{13})", 1, SL(i + 4)))) ELSE t2
        t4 == IF /\ i + 6 < N /\ SL(i + 6) # ""
                 /\ len(SL(i + 6)) > 2 /\ len(SL(i + 6)) < 30
                 /\ SL(i + 6) # "MK" /\ SL(i + 6) # "Ne" /\ SL(i + 6) # "."
              THEN Put(t3, "CitEX124", S(SL(i + 6))) ELSE t3
        t5 == IF i + 7 < N /\ match_A_Z_2("^[A-Z]{2}$", SL(i + 7))
              THEN Put(t4, "CouEX125", S(IF SL(i + 7) = "MK" THEN "MK_cyr" ELSE SL(i + 7)))
              ELSE t4
    IN  sender_postal_customs(t5, i)

\* ECDExtractorCustoms.extract_traexpex1
extract_traexpex1_customs(t) ==
    LET i == sender_anchor_customs
        t1 == IF i = -1 THEN t ELSE sender_fields_customs(t, i)
    IN  IF Has(t1, "PosCodEX123") THEN t1 ELSE Put(t1, "PosCodEX123", None)

extract_traexpex1(t) ==
    IF variant = "generic" THEN extract_traexpex1_generic(t) ELSE extract_traexpex1_customs(t)

-----------------------------------------------------------------------------
(* extract_traconce1: the receiver *)

\* the reference-number line with a foreign country code on the line before it, or -1
receiver_anchor_generic ==
    FirstOf({i \in (data_start_index + 5)..(min(N, data_start_index + 30) - 1) :
               /\ match_d_4_7("^\\d{4,7}$", SL(i)) /\ ~startswith_MK("MK", SL(i))
               /\ i >= 1
               /\ match_A_Z_2("^[A-Z]{2}$", SL(i - 1)) /\ SL(i - 1) \notin {"MK", "MK_cyr"}})

\* the address, two lines before the anchor, with the postal code and city split off
receiver_address_generic(r, i) ==
    LET address_line == SL(i - 2)
        r1 == Put(r, "StrAndNumCE122", S(address_line))
    IN  IF ~(i >= 2 /\ address_line # "" /\ len(address_line) > 2) THEN r
        ELSE IF search_d_4_6_s_n("(\\d{4,6})\\s+([^\\n]+)$", address_line)
        THEN Put(Put(r1, "PosCodCE123",
                     S(group_d_4_6_s_n_1("(\\d{4,6})\\s+([^\\n]+)$", 1, address_line))),
                 "CitCE124", S(strip(group_d_4_6_s_n_2("(\\d{4,6})\\s+([^\\n]+)$", 2, address_line))))
        ELSE Put(r1, "CitCE124", S(address_line))

receiver_fields_generic(r, i) ==
    LET r1 == Put(r, "CouCE125", S(SL(i - 1)))
        r2 == receiver_address_generic(r1, i)
        r3 == IF i >= 3 /\ SL(i - 3) # "" /\ len(SL(i - 3)) > 5
              THEN Put(r2, "NamCE17", S(SL(i - 3))) ELSE r2
    IN  IF i + 1 < N /\ match_A_Z_2_d("^[A-Z]{2}\\d+$", SL(i + 1))
        THEN Put(r3, "TINCE159", S(SL(i + 1))) ELSE r3

\* the value the last statement of extract_traconce1 stores as the receiver's TIN
receiver_tin == None

\* ECDExtractorGeneric.extract_traconce1: data["TRACONCE1"] when it returns
extract_traconce1_generic(r) ==
    LET i == receiver_anchor_generic
        r1 == IF i = -1 THEN r ELSE receiver_fields_generic(r, i)
    IN  Put(r1, "TINCE159", receiver_tin)

\* start_search of the customs receiver: the first receiver-label line, 0 when none
receiver_start_customs == max(0, FirstOf({i \in 0..(N - 1) : isin_8_Primach("8 Primach", L(i))}))

\* the line is taken as the receiver's name
is_receiver_name(line) ==
    /\ line # "" /\ len(line) > 3 /\ ~match_d("^\\d+$", line)
    /\ ~isin_9_Finansovo("9 Finansovo", line) /\ "Ne" # line /\ ~isin_MIKLOSHICHEVA("MIKLOSHICHEVA", line)

\* the line is taken as the receiver's address
is_receiver_address(addr_line) ==
    /\ addr_line # "" /\ len(addr_line) > 5
    /\ ~match_d_4_6("^\\d{4,6}$", addr_line)
    /\ ~match_A_Z_2("^[A-Z]{2}$", addr_line)
    /\ ~isin_SLOVEN("SLOVEN", addr_line)
    /\ isin_ULICA("ULICA", upper(addr_line)) \/ isin_UL("UL.", upper(addr_line))

\* the postal code and the city of the address line
receiver_postal_customs(r, addr_line) ==
    LET postal_code == group_s_d_4_6_s_1("\\s(\\d{4,6})\\s*$", 1, addr_line)
        city_words == words(before_s_d_4_6_s("\\s(\\d{4,6})\\s*$", addr_line))
        all_words == words(addr_line)
        r1 == Put(r, "PosCodCE123",
                  IF postal_code # "00000" /\ postal_code # "0000"
                  THEN S(postal_code) ELSE None)
    IN  IF search_s_d_4_6_s("\\s(\\d{4,6})\\s*$", addr_line)
        THEN IF Len(city_words) > 0
             THEN Put(r1, "CitCE124", S(city_words[Len(city_words)]))
             ELSE r1
        ELSE IF Len(all_words) > 2
        THEN Put(Put(r, "CitCE124", S(all_words[Len(all_words)])), "PosCodCE123", None)
        ELSE r

receiver_address_customs(r, j) ==
    LET r1 == receiver_postal_customs(Put(r, "StrAndNumCE122", S(SL(j))), SL(j))
        k == FirstOf({c \in (j + 1)..(min(N, j + 5) - 1) : match_A_Z_2("^[A-Z]{2}$", SL(c))})
    IN  IF k = -1 THEN r1 ELSE Put(r1, "CouCE125", S(SL(k)))

receiver_fields_customs(r, start_search) ==
    LET i == FirstOf({k \in (start_search + 1)..(min(N, start_search + 10) - 1) :
                        is_receiver_name(SL(k))})
        j == FirstOf({k \in (i + 1)..(min(N, i + 10) - 1) : is_receiver_address(SL(k))})
        r1 == Put(r, "NamCE17", S(SL(i)))
    IN  IF i = -1 THEN r
        ELSE IF j = -1 THEN r1
        ELSE receiver_address_customs(r1, j)

\* ECDExtractorCustoms.extract_traconce1: it returns at once when start_search is 0
extract_traconce1_customs(r) ==
    IF receiver_start_customs = 0 THEN r
    ELSE Put(receiver_fields_customs(r, receiver_start_customs), "TINCE159", receiver_tin)

extract_traconce1(r) ==
    IF variant = "generic" THEN extract_traconce1_generic(r) ELSE extract_traconce1_customs(r)

-----------------------------------------------------------------------------
(* The extractor as a state machine: extract_all, one step per call it makes. *)

\* self.data as __init__ builds it
FreshData ==
    [HEAHEA |-> EmptyDict, TRAEXPEX1 |-> EmptyDict, TRACONCE1 |-> EmptyDict,
     SEAINFSLI |-> [SeaNumSLI2 |-> None, SEAIDSID |-> <<[SeaIdeSID1 |-> S("")]>>],
     GOOITEGDS |-> <<>>]

\* a faulty constructor: the new extractor shares the data of the one before it
reused(previous) == previous

\* __init__: self.data of a newly constructed extractor; the data of the extractor
\* constructed before it (previous) plays no part in it
construct(previous) == FreshData

\* how a run ended, and with which record
Outcome == [t |-> pc, record |-> data]
NoOutcome == [t |-> "none"]

\* ---- the documents

\* n blank lines
Pad(n) == [k \in 1..n |-> ""]

\* the blocks of at most MaxBlock lines over an alphabet
Blocks(alphabet) == UNION {[1..n -> alphabet] : n \in 0..MaxBlock}

\* blank lines, a fixed stem, a block, blank lines
Layouts(heads, stems, alphabet, tails) ==
    {Pad(h) \o s \o b \o Pad(t) :
        h \in heads, s \in stems, b \in Blocks(alphabet), t \in tails}

\* documents that exercise the goods-item segmenter: the block starts just before or
\* at the first line the segmenter scans
GoodsDocuments ==
    [generic |-> Layouts({SearchFloorGeneric - 1, SearchFloorGeneric}, {<<>>},
                         {"12345678", "87654321", "EXMK", "5010(123) 5010(123)",
                          "5016(0052639) 5007(9)", ""},
                         {0}),
     customs |-> Layouts({SearchFloorCustoms - 1, SearchFloorCustoms},
                         {<<>>, <<"33 Tarifna oznaka", "12345678">>},
                         {"33 Tarifna oznaka", "12345678", "87654321",
                          "44 Dopolnitelni informacii", "AUN-MK19/2024, 5016-0052639",
                          "Paleta-14-PX"},
                         {0, 2})]

\* documents that exercise the header and party extractors: the block lies inside
\* their search windows
HeaderDocuments ==
    [generic |-> Layouts({DefaultStartGeneric + 2}, {<<>>},
                         {"1200", "KGM", "<sup2>", "MK4030990253804", "FIRMA DOOEL",
                          "ul. Partizanska 1, Skopje"},
                         {0}),
     customs |-> Layouts({DefaultStartCustoms + 2}, {<<>>},
                         {"2 Consignor/Exporter", "FIRMA DOOEL",
                          "ul. Partizanska 1, Skopje", "Bruto masa", "120.5", "8 Primach"},
                         {0})]

\* documents that exercise the section locator: the landmarks lie in the first
\* lines, with a mass line that may come before them
SectionDocuments ==
    [generic |-> Layouts({0, 1, 3}, {<<>>},
                         {"EXMK", "1 EXMK 341", "LRN : 24MK001", "1200", "KGM"},
                         {0}),
     customs |-> Layouts({0}, {<<>>}, {"EXMK", "2 Consignor/Exporter"}, {0})]

\* documents that exercise the party extractors: a sender whose TIN line may be the
\* last non-empty one, below a first line that may be an address; a receiver whose
\* address line carries a postal code
PartyDocuments ==
    [generic |-> Layouts({0}, {<<"", "EXMK">>, <<"ul. Partizanska 1, Skopje", "EXMK">>},
                         {"MK4030990253804", "FIRMA DOOEL", "ul. Partizanska 1, Skopje", ""},
                         {0})
                 \cup Layouts({0}, {<<"EXMK", "", "", "FREYSSINET SAS">>},
                               {"BASE FIC 71210 St.Eusebe", "BASE FIC 00000 St.Eusebe",
                                "FR", "52639"},
                               {0}),
     customs |-> Layouts({1}, {<<"8 Primach", "PRIMACH DOO">>},
                         {"MIKLOSHICHEVA ULICA 1D DOMZHALE 00000", "ULICA 1D DOMZHALE 000000",
                          "ULICA 1D DOMZHALE 1230", "SI", ""},
                         {0})]

\* documents that exercise the country codes of the header: country names and codes
\* right after the declaration type, or (generic) more than 15 lines after it
CountryDocuments ==
    [generic |-> Layouts({0}, {<<"EXMK">>, <<"EXMK">> \o Pad(16)},
                         {"SEVERNA MAKEDONIJA", "FRANCE", "MK", "FR", ""},
                         {0}),
     customs |-> Layouts({0}, {<<"EXMK">>},
                         {"15 Shifra na zemja", "a MK", "17 Zemja na namena", "FRANCIJA FR",
                          "8 Primach", "MK", "FR"},
                         {0})]

\* documents that exercise the packaging of goods items: a block of packaging lines
\* right before the landmark of the first of one or two items
PackDocuments ==
    [generic |-> {Pad(SearchFloorGeneric - Len(b)) \o b \o s :
                    b \in Blocks({"14", "PX", "120,5", ""}),
                    s \in {<<"12345678">>, <<"12345678", "87654321">>}},
     customs |-> {Pad(SearchFloorCustoms - Len(b)) \o b \o s \o Pad(2) :
                    b \in Blocks({"Paleta-14-PX", "Vzaemno opredeleno-24-ZZ",
                                  "Vzaemno opredeleno-24-ZZ Paleta-14-PX",
                                  "Vzaemno opredeleno", ""}),
                    s \in {<<"33 Tarifna oznaka", "12345678">>,
                           <<"33 Tarifna oznaka", "12345678",
                             "33 Tarifna oznaka", "87654321">>}}]

\* ---- states in which a component is not in use

ExtractorIdle ==
    /\ variant = "generic" /\ doc = <<>> /\ lines = <<>> /\ data_start_index = -1
    /\ data = FreshData /\ pc = "idle" /\ first = NoOutcome /\ runs = 0 /\ calls = 0

DetectorIdle ==
    /\ sample = {} /\ text = {} /\ scores = <<0, 0>> /\ result = "unknown" /\ dpc = "idle"

AcquireIdle ==
    /\ handles = <<>> /\ pages = <<>> /\ page = 0 /\ apc = "idle" /\ routine = "none"

CommandIdle ==
    /\ command = "none" /\ pdf_files = <<>> /\ env = EmptyDict /\ bi = 0
    /\ results = <<>> /\ attempts = <<>> /\ bpc = "idle" /\ exit_status = -1

OcrIdle ==
    /\ images = <<>> /\ image_no = 0 /\ tried = <<>> /\ full_text = <<>>
    /\ stored = None /\ opc = "idle"

CompareIdle ==
    /\ expected_path = None /\ expected = None
    /\ differences = <<>> /\ matchlist = <<>> /\ cpc = "idle"

\* ---- the steps of extract_all

\* a new extractor for one of the documents; the lines of a document are
\* strings of the domain of the tables
InitExtractor(documents) ==
    /\ variant \in {"generic", "customs"}
    /\ doc \in documents[variant]
    /\ \A k \in 1..Len(doc) : doc[k] \in Strings
    /\ lines = <<>>
    /\ data_start_index = -1
    /\ data = FreshData
    /\ pc = "new"
    /\ first = NoOutcome
    /\ runs = 1
    /\ calls = 1
    /\ DetectorIdle /\ AcquireIdle /\ CommandIdle /\ CompareIdle /\ OcrIdle

\* extract_text_from_pdf: self.lines = text.split('\n')
ExtractTextFromPdf ==
    /\ pc = "new"
    /\ lines' = doc
    /\ pc' = "text"
    /\ UNCHANGED <<variant, doc, data_start_index, data, first, runs, calls>>
    /\ UNCHANGED <<detectorVars, acquireVars, commandVars, compareVars, ocrVars>>

FindDataSection ==
    /\ pc = "text"
    /\ data_start_index' = find_data_section
    /\ pc' = "section"
    /\ UNCHANGED <<variant, doc, lines, data, first, runs, calls>>
    /\ UNCHANGED <<detectorVars, acquireVars, commandVars, compareVars, ocrVars>>

\* extract_heahea: int() of the mass line may raise, after nothing was stored
ExtractHeahea ==
    /\ pc = "section"
    /\ IF heahea_raises
       THEN pc' = "raised" /\ data' = data
       ELSE pc' = "heahea"
            /\ data' = [data EXCEPT !.HEAHEA = extract_heahea(data.HEAHEA)]
    /\ UNCHANGED <<variant, doc, lines, data_start_index, first, runs, calls>>
    /\ UNCHANGED <<detectorVars, acquireVars, commandVars, compareVars, ocrVars>>

ExtractTraexpex1 ==
    /\ pc = "heahea"
    /\ data' = [data EXCEPT !.TRAEXPEX1 = extract_traexpex1(data.TRAEXPEX1)]
    /\ pc' = "traexpex1"
    /\ UNCHANGED <<variant, doc, lines, data_start_index, first, runs, calls>>
    /\ UNCHANGED <<detectorVars, acquireVars, commandVars, compareVars, ocrVars>>

ExtractTraconce1 ==
    /\ pc = "traexpex1"
    /\ data' = [data EXCEPT !.TRACONCE1 = extract_traconce1(data.TRACONCE1)]
    /\ pc' = "traconce1"
    /\ UNCHANGED <<variant, doc, lines, data_start_index, first, runs, calls>>
    /\ UNCHANGED <<detectorVars, acquireVars, commandVars, compareVars, ocrVars>>

\* the items of the variant and whether the loop over them raises
items_found == IF variant = "generic" THEN items_generic ELSE items_customs
gooitegds_raises == variant = "customs" /\ raising_item_customs # 0

\* extract_gooitegds: the items are appended to data["GOOITEGDS"]; extract_all
\* returns self.data afterwards
ExtractGooitegds ==
    /\ pc = "traconce1"
    /\ data' = [data EXCEPT !.GOOITEGDS = data.GOOITEGDS \o items_found]
    /\ pc' = IF gooitegds_raises THEN "raised" ELSE "done"
    /\ UNCHANGED <<variant, doc, lines, data_start_index, first, runs, calls>>
    /\ UNCHANGED <<detectorVars, acquireVars, commandVars, compareVars, ocrVars>>

\* a second extractor is constructed for the same document, after the first one ended
NewExtractor ==
    /\ pc \in {"done", "raised"}
    /\ runs < MaxRuns
    /\ first' = Outcome
    /\ runs' = runs + 1
    /\ calls' = 1
    /\ data' = construct(data)
    /\ lines' = <<>>
    /\ data_start_index' = -1
    /\ pc' = "new"
    /\ UNCHANGED <<variant, doc>>
    /\ UNCHANGED <<detectorVars, acquireVars, commandVars, compareVars, ocrVars>>

Init == InitExtractor(GoodsDocuments)

Next ==
    \/ ExtractTextFromPdf
    \/ FindDataSection
    \/ ExtractHeahea
    \/ ExtractTraexpex1
    \/ ExtractTraconce1
    \/ ExtractGooitegds
    \/ NewExtractor

Spec == Init /\ [][Next]_vars

InitHeader == InitExtractor(HeaderDocuments)

SpecHeader == InitHeader /\ [][Next]_vars

InitSection == InitExtractor(SectionDocuments)

SpecSection == InitSection /\ [][Next]_vars

InitParty == InitExtractor(PartyDocuments)

SpecParty == InitParty /\ [][Next]_vars

InitCountry == InitExtractor(CountryDocuments)

SpecCountry == InitCountry /\ [][Next]_vars

InitPack == InitExtractor(PackDocuments)

SpecPack == InitPack /\ [][Next]_vars

\* extract_all is called once more on the extractor whose extract_all has returned:
\* self.data is the record of the call before, and the steps run again
ExtractAllAgain ==
    /\ pc = "done"
    /\ calls < MaxCalls
    /\ first' = Outcome
    /\ calls' = calls + 1
    /\ pc' = "new"
    /\ UNCHANGED <<variant, doc, lines, data_start_index, data, runs>>
    /\ UNCHANGED <<detectorVars, acquireVars, commandVars, compareVars, ocrVars>>

NextAgain == Next \/ ExtractAllAgain

SpecAgain == Init /\ [][NextAgain]_vars
-----------------------------------------------------------------------------
(* ECDFormatDetector.  The text sample is the set of the fragments it is made of, *)
(* each on a line of its own; a test of the text holds when it holds of a         *)
(* fragment.                                                                      *)

Fragments ==
    {"2 Consignor/Exporter No", "RBD 12", "7 referenten broj 1/2026",
     "Oznaki i broevi - Broj na kontejner",
     "2 Isprakjach/Izvoznik", "LRN : 24MK001", "RDB 5", "tov.list 123",
     "ECD", "RDB:", "Consignor/Exporter tov.list", "14 Consignor/Exporter"}

\* the customs indicators that match text t, by their numbers in detect_format
customs_matched(t) ==
    {k \in 1..4 :
        \/ /\ k = 1
           /\ \/ \E f \in t : isin_Consignor_Exporter_2("Consignor/Exporter", f)
              \/ \E f \in t : isin_Consignor_Exporter("Consignor / Exporter", f)
        \/ /\ k = 2
           /\ \E f \in t : isin_RBD("RBD", f)
           /\ ~\E f \in t : isin_RDB("RDB", f)
        \/ /\ k = 3
           /\ \E f \in t : search_ignorecase_7_s_referenten_broj_s_w("7\\s+referenten broj\\s+[\\w\\d]+/\\d{4}", f)
        \/ /\ k = 4
           /\ \E f \in t : isin_Oznaki_i_broevi_Broj_na("Oznaki i broevi - Broj na kontejner", f)}

\* faulty indicators: the sender label counts only in a text without the Latin
\* party label
standard_matched_exclusive(t) ==
    {k \in 1..4 :
        \/ /\ k = 1
           /\ \/ \E f \in t : isin_Isprakjach_Izvoznik_2("Isprakjach/Izvoznik", f)
              \/ \E f \in t : isin_Isprakjach_Izvoznik("Isprakjach / Izvoznik", f)
           /\ ~\E f \in t : isin_Consignor_Exporter_2("Consignor/Exporter", f)
        \/ /\ k = 2
           /\ \E f \in t : search_LRN_s_s_d_2_MK("LRN\\s*:\\s*\\d{2}MK", f)
        \/ /\ k = 3
           /\ \E f \in t : search_RDB_s_d("RDB\\s+\\d", f)
        \/ /\ k = 4
           /\ \/ \E f \in t : isin_tov_list("tov.list", lower(f))
              \/ \E f \in t : isin_tovaren_list("tovaren list", lower(f))}

\* the standard indicators that match text t
standard_matched(t) ==
    {k \in 1..4 :
        \/ /\ k = 1
           /\ \/ \E f \in t : isin_Isprakjach_Izvoznik_2("Isprakjach/Izvoznik", f)
              \/ \E f \in t : isin_Isprakjach_Izvoznik("Isprakjach / Izvoznik", f)
        \/ /\ k = 2
           /\ \E f \in t : search_LRN_s_s_d_2_MK("LRN\\s*:\\s*\\d{2}MK", f)
        \/ /\ k = 3
           /\ \E f \in t : search_RDB_s_d("RDB\\s+\\d", f)
        \/ /\ k = 4
           /\ \/ \E f \in t : isin_tov_list("tov.list", lower(f))
              \/ \E f \in t : isin_tovaren_list("tovaren list", lower(f))}

\* faulty weights: every customs indicator adds 1
customs_weight_light == <<1, 1, 1, 1>>

\* "customs_indicators += ..." : the weights of the indicators 1..4
customs_weight == <<2, 1, 2, 1>>

\* faulty weights: every standard indicator adds 1
standard_weight_light == <<1, 1, 1, 1>>

\* "standard_indicators += ..."
standard_weight == <<2, 2, 1, 1>>

RECURSIVE total(_, _)
\* the sum of the weights of the matched indicators
total(weight, matched) ==
    IF matched = {} THEN 0
    ELSE LET k == Min(matched) IN weight[k] + total(weight, matched \ {k})

customs_indicators(t) == total(customs_weight, customs_matched(t))
standard_indicators(t) == total(standard_weight, standard_matched(t))

\* a faulty decision: a tie at or above the threshold goes to the customs variant
decide_tie(customs, standard) ==
    IF customs >= standard /\ customs >= 2 THEN "customs"
    ELSE IF standard > customs /\ standard >= 2 THEN "standard"
    ELSE "unknown"

\* a faulty decision: the customs branch tests the threshold on the standard score
decide_crossed(customs, standard) ==
    IF customs > standard /\ standard >= 2 THEN "customs"
    ELSE IF standard > customs /\ standard >= 2 THEN "standard"
    ELSE "unknown"

\* the decision at the end of detect_format
decide(customs, standard) ==
    IF customs > standard /\ customs >= 2 THEN "customs"
    ELSE IF standard > customs /\ standard >= 2 THEN "standard"
    ELSE "unknown"

\* detect_format on text t: the scores and the value returned; an empty text
\* returns UNKNOWN before any indicator is tested
scores_of(t) == IF t = {} THEN <<0, 0>> ELSE <<customs_indicators(t), standard_indicators(t)>>
detect_format(t) == IF t = {} THEN "unknown" ELSE decide(scores_of(t)[1], scores_of(t)[2])

InitDetect ==
    /\ sample \in SUBSET Fragments
    /\ text = {}
    /\ scores = <<0, 0>>
    /\ result = "unknown"
    /\ dpc = "new"
    /\ ExtractorIdle /\ AcquireIdle /\ CommandIdle /\ CompareIdle /\ OcrIdle

\* detect_format of a new detector: self.text is empty, so extract_text_sample
\* fills it in, and the text is scored
DetectFormat ==
    /\ dpc = "new"
    /\ text' = sample
    /\ scores' = scores_of(sample)
    /\ result' = detect_format(sample)
    /\ dpc' = "detected"
    /\ UNCHANGED sample
    /\ UNCHANGED <<extractorVars, acquireVars, commandVars, compareVars, ocrVars>>

\* detect_ecd_format(pdf_path): a new detector runs detect_format on a PDF whose
\* sample has one more fragment than the last one
DetectEcdFormat ==
    /\ dpc \in {"detected", "redetected"}
    /\ \E f \in Fragments \ sample :
          /\ sample' = sample \cup {f}
          /\ text' = sample \cup {f}
          /\ scores' = scores_of(sample \cup {f})
          /\ result' = detect_format(sample \cup {f})
    /\ dpc' = "redetected"
    /\ UNCHANGED <<extractorVars, acquireVars, commandVars, compareVars, ocrVars>>

NextDetect == DetectFormat \/ DetectEcdFormat

SpecDetect == InitDetect /\ [][NextDetect]_vars

-----------------------------------------------------------------------------
(* Text acquisition: is_scanned_pdf and extract_text_from_pdf of the extractor,   *)
(* extract_text_sample of the detector.  A PDF is the list of its pages; reading  *)
(* a page returns its text or raises.                                             *)

\* extract_ecd_generic.py:46  "for page_num in range(min(3, total_pages))"
ScanPages == 3
\* ecd_format_detector.py:34  "for i in range(min(2, len(doc)))"
SamplePages == 2
\* extract_ecd_generic.py:57  "is_scanned = total_chars < 100"
ScannedBelow == 100

\* len(page.get_text().strip()) of a page
chars(p) == IF p = "text" THEN PageChars ELSE 0

RECURSIVE total_chars(_)
\* total_chars after the first n pages were read
total_chars(n) == IF n = 0 THEN 0 ELSE total_chars(n - 1) + chars(pages[n])

\* the PDFs: at most MaxPages pages
Pdfs == UNION {[1..n -> {"text", "blank", "raise"}] : n \in 0..MaxPages}

\* doc.close() on the handle opened last
close_last(hs) == [hs EXCEPT ![Len(hs)] = "closed"]

InitAcquire ==
    /\ routine \in {"is_scanned_pdf", "extract_text_from_pdf", "extract_text_sample"}
    /\ pages \in Pdfs
    /\ handles = <<>>
    /\ page = 0
    /\ apc = "start"
    /\ ExtractorIdle /\ DetectorIdle /\ CommandIdle /\ CompareIdle /\ OcrIdle

\* "doc = fitz.open(self.pdf_path)" at the start of is_scanned_pdf and of
\* extract_text_sample
Open ==
    /\ apc = "start"
    /\ handles' = Append(handles, "open")
    /\ page' = 0
    /\ apc' = IF routine = "extract_text_sample" THEN "sample" ELSE "scan"
    /\ UNCHANGED <<pages, routine>>
    /\ UNCHANGED <<extractorVars, detectorVars, commandVars, compareVars, ocrVars>>

\* one pass of the loop of is_scanned_pdf; when get_text raises, the except clause
\* returns False, and extract_text_from_pdf goes on to read the embedded text
ScanPage ==
    /\ apc = "scan"
    /\ page < min(ScanPages, Len(pages))
    /\ IF pages[page + 1] = "raise"
       THEN /\ apc' = IF routine = "is_scanned_pdf" THEN "returned" ELSE "open_text"
            /\ page' = page
       ELSE /\ apc' = apc
            /\ page' = page + 1
    /\ UNCHANGED <<handles, pages, routine>>
    /\ UNCHANGED <<extractorVars, detectorVars, commandVars, compareVars, ocrVars>>

\* the end of is_scanned_pdf: doc.close() and the verdict
ScanClose ==
    /\ apc = "scan"
    /\ page = min(ScanPages, Len(pages))
    /\ handles' = close_last(handles)
    /\ apc' = IF routine = "is_scanned_pdf" THEN "returned"
              ELSE IF total_chars(page) < ScannedBelow THEN "ocr"
              ELSE "open_text"
    /\ UNCHANGED <<pages, page, routine>>
    /\ UNCHANGED <<extractorVars, detectorVars, commandVars, compareVars, ocrVars>>

\* extract_text_with_ocr: it opens no handle; it returns the text or re-raises
Ocr ==
    /\ apc = "ocr"
    /\ apc' \in {"returned", "raised"}
    /\ UNCHANGED <<handles, pages, page, routine>>
    /\ UNCHANGED <<extractorVars, detectorVars, commandVars, compareVars, ocrVars>>

\* "doc = fitz.open(self.pdf_path)" of the embedded-text branch
OpenText ==
    /\ apc = "open_text"
    /\ handles' = Append(handles, "open")
    /\ page' = 0
    /\ apc' = "read"
    /\ UNCHANGED <<pages, routine>>
    /\ UNCHANGED <<extractorVars, detectorVars, commandVars, compareVars, ocrVars>>

\* one pass of "for page in doc: text += page.get_text()"; an exception leaves
\* extract_text_from_pdf at once
ReadPage ==
    /\ apc = "read"
    /\ page < Len(pages)
    /\ IF pages[page + 1] = "raise"
       THEN apc' = "raised" /\ page' = page
       ELSE apc' = apc /\ page' = page + 1
    /\ UNCHANGED <<handles, pages, routine>>
    /\ UNCHANGED <<extractorVars, detectorVars, commandVars, compareVars, ocrVars>>

\* the end of the embedded-text branch: doc.close()
CloseText ==
    /\ apc = "read"
    /\ page = Len(pages)
    /\ handles' = close_last(handles)
    /\ apc' = "returned"
    /\ UNCHANGED <<pages, page, routine>>
    /\ UNCHANGED <<extractorVars, detectorVars, commandVars, compareVars, ocrVars>>

\* one pass of the loop of extract_text_sample; when get_text raises, the except
\* clause is left with "return ''"
SamplePage ==
    /\ apc = "sample"
    /\ page < min(SamplePages, Len(pages))
    /\ IF pages[page + 1] = "raise"
       THEN apc' = "returned" /\ page' = page
       ELSE apc' = apc /\ page' = page + 1
    /\ UNCHANGED <<handles, pages, routine>>
    /\ UNCHANGED <<extractorVars, detectorVars, commandVars, compareVars, ocrVars>>

\* the end of extract_text_sample: doc.close() on either branch of "if len(doc) > 0"
SampleClose ==
    /\ apc = "sample"
    /\ page = min(SamplePages, Len(pages))
    /\ handles' = close_last(handles)
    /\ apc' = "returned"
    /\ UNCHANGED <<pages, page, routine>>
    /\ UNCHANGED <<extractorVars, detectorVars, commandVars, compareVars, ocrVars>>

NextAcquire ==
    \/ Open
    \/ ScanPage
    \/ ScanClose
    \/ Ocr
    \/ OpenText
    \/ ReadPage
    \/ CloseText
    \/ SamplePage
    \/ SampleClose

SpecAcquire == InitAcquire /\ [][NextAcquire]_vars

-----------------------------------------------------------------------------
(* extract_text_with_ocr.  A page image is given by which of the three calls  *)
(* of pytesseract.image_to_string raise on it; a text is the list of its      *)
(* lines, and the text a call recognises on a page is one line.               *)

\* lang= of the three calls, in the order of the nested try statements
Langs == <<"mkd+eng", "srp+eng", "eng">>

\* what image_to_string returns for page k with Langs[l]
page_text(k, l) == "page " \o str(k) \o " " \o Langs[l]

\* a faulty recognition: all three calls are made and the last that succeeds wins
image_to_text_all(image, k) ==
    LET good == {l \in 1..3 : image[l] = "ok"}
    IN  [tried |-> [l \in 1..3 |-> <<k, Langs[l]>>],
         raised |-> good = {},
         text |-> IF good = {} THEN "" ELSE page_text(k, Max(good))]

\* the nested try statements of the loop body for page k: the calls made, whether
\* the last one raised (nothing catches it inside the loop), and "text"
image_to_text(image, k) ==
    IF image[1] = "ok"
    THEN [tried |-> <<<<k, Langs[1]>>>>, raised |-> FALSE, text |-> page_text(k, 1)]
    ELSE IF image[2] = "ok"
    THEN [tried |-> <<<<k, Langs[1]>>, <<k, Langs[2]>>>>, raised |-> FALSE,
          text |-> page_text(k, 2)]
    ELSE [tried |-> <<<<k, Langs[1]>>, <<k, Langs[2]>>, <<k, Langs[3]>>>>,
          raised |-> image[3] # "ok",
          text |-> IF image[3] = "ok" THEN page_text(k, 3) ELSE ""]

\* full_text.split('\n') of a text whose lines all end with "\n"
split_lines(t) == t \o <<"">>

\* self.text and self.lines as __init__ leaves them, and as an earlier call of
\* extract_text_from_pdf on the same extractor leaves them
FreshText == [text |-> <<>>, lines |-> <<>>]
EarlierText == [text |-> <<"page 1 mkd+eng">>, lines |-> <<"page 1 mkd+eng", "">>]

\* the scanned PDFs: at most MaxImages page images
Scans == UNION {[1..n -> [1..3 -> {"ok", "raise"}]] : n \in 0..MaxImages}

InitOcr ==
    /\ images \in Scans
    /\ image_no = 0 /\ tried = <<>> /\ full_text = <<>>
    /\ stored \in {FreshText, EarlierText}
    /\ opc \in {"start", "start_unreadable"}
    /\ ExtractorIdle /\ DetectorIdle /\ AcquireIdle /\ CommandIdle /\ CompareIdle

\* "images = convert_from_path(self.pdf_path, dpi=300)": it returns the page
\* images or raises, and the except clause of extract_text_with_ocr re-raises
ConvertFromPath ==
    /\ opc \in {"start", "start_unreadable"}
    /\ opc' = IF opc = "start" THEN "pages" ELSE "raised"
    /\ UNCHANGED <<images, image_no, tried, full_text, stored>>
    /\ UNCHANGED <<extractorVars, detectorVars, acquireVars, commandVars, compareVars>>

\* one pass of "for i, image in enumerate(images)"
OcrPage ==
    /\ opc = "pages" /\ image_no < Len(images)
    /\ LET r == image_to_text(images[image_no + 1], image_no + 1)
       IN  /\ tried' = tried \o r.tried
           /\ IF r.raised
              THEN opc' = "raised" /\ UNCHANGED <<image_no, full_text>>
              ELSE /\ full_text' = Append(full_text, r.text)
                   /\ image_no' = image_no + 1
                   /\ opc' = opc
    /\ UNCHANGED <<images, stored>>
    /\ UNCHANGED <<extractorVars, detectorVars, acquireVars, commandVars, compareVars>>

\* after the loop: self.text = full_text, self.lines = full_text.split('\n')
OcrReturn ==
    /\ opc = "pages" /\ image_no = Len(images)
    /\ stored' = [text |-> full_text, lines |-> split_lines(full_text)]
    /\ opc' = "returned"
    /\ UNCHANGED <<images, image_no, tried, full_text>>
    /\ UNCHANGED <<extractorVars, detectorVars, acquireVars, commandVars, compareVars>>

NextOcr == ConvertFromPath \/ OcrPage \/ OcrReturn

SpecOcr == InitOcr /\ [][NextOcr]_vars

-----------------------------------------------------------------------------
(* The commands: batch_extract.py (process_directory and main) and            *)
(* ecd_extract.py (main).  A PDF of the input directory is given by how its   *)
(* extraction fares: "ok", "extract_raises" (ECDExtractor.extract_all raises  *)
(* an Exception) or "save_raises" (save_to_json raises one).                  *)

FileKinds == {"ok", "extract_raises", "save_raises"}

\* os.path.basename(pdf_file) of the i-th PDF, and filename.replace('.pdf', '.json')
filename(i) == str(i) \o ".pdf"
output_file(i) == str(i) \o ".json"

\* a faulty loop body, without the try: an exception leaves process_directory
process_file_unguarded(i) ==
    IF pdf_files[i] = "ok"
    THEN [file |-> filename(i), status |-> "success", output |-> output_file(i)]
    ELSE [status |-> "uncaught"]

\* the body of the loop of process_directory for the i-th PDF: the entry it
\* appends to results; "except Exception" turns a raise of extract_all or of
\* save_to_json into an entry with the message str(e)
process_file(i) ==
    IF pdf_files[i] = "ok"
    THEN [file |-> filename(i), status |-> "success", output |-> output_file(i)]
    ELSE [file |-> filename(i), status |-> "error", error |-> pdf_files[i]]

\* sum(1 for r in results if r['status'] == 'error')
error_count == Cardinality({k \in 1..Len(results) : results[k].status = "error"})

\* a faulty return of main: the status does not depend on error_count
batch_status_ignored(errors) == 0

\* return 0 if error_count == 0 else 1
batch_status(errors) == IF errors = 0 THEN 0 ELSE 1

\* the status of ecd_extract.main: the try block calls extract_all, save_to_json
\* and, with --compare, compare_with_expected, and returns 0; both except
\* clauses return 1
single_status(e) ==
    IF e.extract = "missing" THEN 1
    ELSE IF e.extract = "raise" THEN 1
    ELSE IF e.save = "raise" THEN 1
    ELSE IF e.compare = "raise" THEN 1
    ELSE 0

\* the status of a Python process that ends with an uncaught exception
Uncaught == 1

\* the sequences of at most MaxFiles PDFs
Directories == UNION {[1..n -> FileKinds] : n \in 0..MaxFiles}

InitCommand ==
    /\ command \in {"batch", "single"}
    /\ IF command = "batch"
       THEN /\ pdf_files \in Directories
            /\ env \in [mkdir : {"ok", "raise"}, report : {"none", "ok", "raise"}]
       ELSE /\ pdf_files = <<>>
            /\ env \in [extract : {"ok", "missing", "raise"}, save : {"ok", "raise"},
                        compare : {"none", "same", "differs", "raise"}]
    /\ bi = 0 /\ results = <<>> /\ attempts = <<>>
    /\ bpc = "start" /\ exit_status = -1
    /\ ExtractorIdle /\ DetectorIdle /\ AcquireIdle /\ CompareIdle /\ OcrIdle

\* process_directory up to its loop: mkdir of the output directory (outside any
\* try: a raise ends the command), glob, and "return []" when there is no PDF
ProcessDirectory ==
    /\ bpc = "start" /\ command = "batch"
    /\ IF env.mkdir = "raise"
       THEN bpc' = "exited" /\ exit_status' = Uncaught
       ELSE /\ bpc' = IF pdf_files = <<>> THEN "summary" ELSE "loop"
            /\ exit_status' = exit_status
    /\ UNCHANGED <<command, pdf_files, env, bi, results, attempts>>
    /\ UNCHANGED <<extractorVars, detectorVars, acquireVars, compareVars, ocrVars>>

\* one pass of "for i, pdf_file in enumerate(pdf_files, 1)"
ProcessFile ==
    /\ bpc = "loop" /\ bi < Len(pdf_files)
    /\ attempts' = Append(attempts, bi + 1)
    /\ LET entry == process_file(bi + 1)
       IN  IF entry.status = "uncaught"
           THEN /\ bpc' = "exited" /\ exit_status' = Uncaught
                /\ UNCHANGED <<bi, results>>
           ELSE /\ results' = Append(results, entry)
                /\ bi' = bi + 1
                /\ bpc' = IF bi + 1 = Len(pdf_files) THEN "summary" ELSE "loop"
                /\ exit_status' = exit_status
    /\ UNCHANGED <<command, pdf_files, env>>
    /\ UNCHANGED <<extractorVars, detectorVars, acquireVars, compareVars, ocrVars>>

\* main of batch_extract.py after process_directory returned: the summary, the
\* report (its open and json.dump are outside any try) and the return
BatchMain ==
    /\ bpc = "summary"
    /\ exit_status' = IF env.report = "raise" THEN Uncaught
                      ELSE batch_status(error_count)
    /\ bpc' = "exited"
    /\ UNCHANGED <<command, pdf_files, env, bi, results, attempts>>
    /\ UNCHANGED <<extractorVars, detectorVars, acquireVars, compareVars, ocrVars>>

\* main of ecd_extract.py
EcdExtractMain ==
    /\ bpc = "start" /\ command = "single"
    /\ exit_status' = single_status(env)
    /\ bpc' = "exited"
    /\ UNCHANGED <<command, pdf_files, env, bi, results, attempts>>
    /\ UNCHANGED <<extractorVars, detectorVars, acquireVars, compareVars, ocrVars>>

NextCommand == ProcessDirectory \/ ProcessFile \/ BatchMain \/ EcdExtractMain

SpecCommand == InitCommand /\ [][NextCommand]_vars

-----------------------------------------------------------------------------
(* compare_with_expected of the generic extractor.  The comparator tells a    *)
(* dict from a list from a leaf with isinstance; here every node carries that *)
(* type in its field t, next to the leaves None, S, I and F.                  *)

\* a dict and a list as the comparator sees them
Dict(d) == [t |-> "dict", at |-> d]
List(s) == [t |-> "list", items |-> s]

\* a list of dicts whose values are leaves
dicts(s) == List([k \in DOMAIN s |-> Dict(s[k])])

\* one entry of GOOITEGDS
item_tree(it) ==
    Dict([k \in DOMAIN it |->
            IF k = "COMCODGODITM" THEN Dict(it[k])
            ELSE IF k \in {"PACGS2", "PRODOCDC2"} THEN dicts(it[k])
            ELSE it[k]])

\* a record of the shape of self.data, as json.dump writes it and json.load
\* reads it back: dicts stay dicts, lists stay lists, and None, str, int and
\* float leaves keep type and value
as_tree(d) ==
    Dict([k \in DOMAIN d |->
            IF k \in {"HEAHEA", "TRAEXPEX1", "TRACONCE1"} THEN Dict(d[k])
            ELSE IF k = "SEAINFSLI"
                 THEN Dict([j \in DOMAIN d[k] |->
                              IF j = "SEAIDSID" THEN dicts(d[k][j]) ELSE d[k][j]])
            ELSE List([i \in DOMAIN d[k] |-> item_tree(d[k][i])])])

\* the record a tree stands for
RECURSIVE untag(_)
untag(v) ==
    IF v.t = "dict" THEN [k \in DOMAIN v.at |-> untag(v.at[k])]
    ELSE IF v.t = "list" THEN [i \in DOMAIN v.items |-> untag(v.items[i])]
    ELSE v

\* "actual != expected" on leaves is Python's: an int equals the float of the
\* same value
py_equal(a, e) ==
    \/ a = e
    \/ a.t = "int" /\ e.t = "float" /\ e.f = str(a.n) \o ".0"
    \/ a.t = "float" /\ e.t = "int" /\ a.f = str(e.n) \o ".0"

\* the two lists of one part of the comparison, and two parts one after the other
Lists(d, m) == [differences |-> d, matches |-> m]
Then(first_part, second_part) ==
    Lists(first_part.differences \o second_part.differences,
          first_part.matches \o second_part.matches)

\* f"{path}.{key}" if path else key, and f"{path}[{i}]"
key_path(path, key) == IF path = "" THEN key ELSE path \o "." \o key
index_path(path, i) == path \o "[" \o str(i) \o "]"

\* a faulty leaf branch: a None that equals the reference is recorded nowhere
compare_leaf_skipping_none(path, actual, reference) ==
    IF ~ py_equal(actual, reference)
    THEN Lists(<<[kind |-> "differs", path |-> path, actual |-> actual,
                  expected |-> reference]>>, <<>>)
    ELSE IF actual = None THEN Lists(<<>>, <<>>)
    ELSE Lists(<<>>, <<path>>)

\* the leaf branch of compare_dict
compare_leaf(path, actual, reference) ==
    IF ~ py_equal(actual, reference)
    THEN Lists(<<[kind |-> "differs", path |-> path, actual |-> actual,
                  expected |-> reference]>>, <<>>)
    ELSE Lists(<<>>, <<path>>)

\* compare_dict: what one call appends to differences and to matches.  An entry
\* of differences is given by its kind, its path and the values it prints; an
\* entry of matches by its path.  "for key in expected" visits the keys (todo:
\* those still to visit) in some fixed order; zip stops at the shorter list.
RECURSIVE compare_dict(_, _, _), compare_keys(_, _, _, _), compare_zip(_, _, _, _)

\* a faulty loop over the elements: lists of different lengths are not compared
\* element by element
compare_zip_same_length(path, actual, reference, i) ==
    IF Len(actual.items) # Len(reference.items) \/ i >= Len(actual.items)
    THEN Lists(<<>>, <<>>)
    ELSE Then(compare_dict(index_path(path, i), actual.items[i + 1],
                           reference.items[i + 1]),
              compare_zip(path, actual, reference, i + 1))

\* "for i, (a, e) in enumerate(zip(actual, expected))", from element i on
compare_zip(path, actual, reference, i) ==
    IF i >= min(Len(actual.items), Len(reference.items)) THEN Lists(<<>>, <<>>)
    ELSE Then(compare_dict(index_path(path, i), actual.items[i + 1],
                           reference.items[i + 1]),
              compare_zip(path, actual, reference, i + 1))

compare_dict(path, actual, reference) ==
    IF reference.t = "dict"
    THEN compare_keys(path, actual, reference, DOMAIN reference.at)
    ELSE IF reference.t = "list"
    THEN Then(IF Len(actual.items) # Len(reference.items)
              THEN Lists(<<[kind |-> "length", path |-> path,
                            actual |-> Len(actual.items),
                            expected |-> Len(reference.items)]>>, <<>>)
              ELSE Lists(<<>>, <<>>),
              compare_zip(path, actual, reference, 0))
    ELSE compare_leaf(path, actual, reference)

compare_keys(path, actual, reference, todo) ==
    IF todo = {} THEN Lists(<<>>, <<>>)
    ELSE LET key == CHOOSE k \in todo : TRUE
             new_path == key_path(path, key)
         IN  Then(IF key \notin DOMAIN actual.at
                  THEN Lists(<<[kind |-> "missing", path |-> new_path]>>, <<>>)
                  ELSE compare_dict(new_path, actual.at[key], reference.at[key]),
                  compare_keys(path, actual, reference, todo \ {key}))

\* a faulty comparator: a header key the record lacks is taken over from the
\* reference
compare_with_expected_filling(actual, reference) ==
    LET lists == compare_dict("", actual, reference)
        header == actual.at["HEAHEA"].at
        wanted == reference.at["HEAHEA"].at
    IN  [actual |-> Dict([actual.at EXCEPT !["HEAHEA"] =
                            Dict([k \in DOMAIN header \cup DOMAIN wanted |->
                                    IF k \in DOMAIN header THEN header[k]
                                    ELSE wanted[k]])]),
         expected |-> reference,
         differences |-> lists.differences, matches |-> lists.matches,
         returns |-> Len(lists.differences) = 0]

\* compare_with_expected on self.data (actual) and the loaded reference: the two
\* objects and the two lists when it returns, and the value it returns
compare_with_expected(actual, reference) ==
    LET lists == compare_dict("", actual, reference)
    IN  [actual |-> actual, expected |-> reference,
         differences |-> lists.differences, matches |-> lists.matches,
         returns |-> Len(lists.differences) = 0]

\* ---- the reference files a record is compared with

\* the header of a reference whose total gross mass is the float of the record's
as_float(h) ==
    IF Has(h, "TotGroMasHEA307") /\ h["TotGroMasHEA307"].t = "int"
    THEN Put(h, "TotGroMasHEA307", F(str(h["TotGroMasHEA307"].n) \o ".0"))
    ELSE h

\* the record itself, and references that differ from it in one place
References(d) ==
    {d,
     [d EXCEPT !.HEAHEA = Put(@, "TotGroMasHEA307", I(1200))],
     [d EXCEPT !.HEAHEA = as_float(@)],
     [d EXCEPT !.GOOITEGDS = Append(@, create_empty_item)],
     [d EXCEPT !.GOOITEGDS = <<>>],
     [d EXCEPT !.GOOITEGDS[1].IteNumGDS7 = S("9")],
     [d EXCEPT !.GOOITEGDS = Append([@ EXCEPT ![1].IteNumGDS7 = S("9")], create_empty_item)],
     [k \in DOMAIN d \ {"SEAINFSLI"} |-> d[k]]}

\* documents whose records differ in the header and in the goods items
CompareDocuments ==
    [generic |-> Layouts({SearchFloorGeneric}, {<<>>},
                         {"12345678", "87654321", "5010(123) 5010(123)"}, {0})
                 \cup Layouts({DefaultStartGeneric + 2}, {<<>>},
                               {"1200", "KGM", "MK4030990253804"}, {0}),
     customs |-> {}]

InitCompare == InitExtractor(CompareDocuments)

\* compare_with_expected(expected_path), called on an extractor whose extract_all
\* has returned
CompareWithExpected ==
    /\ pc = "done" /\ cpc = "idle"
    /\ \E file \in References(data) :
          LET c == compare_with_expected(as_tree(data), as_tree(file))
          IN  /\ expected_path' = file
              /\ data' = untag(c.actual)
              /\ expected' = c.expected
              /\ differences' = c.differences
              /\ matchlist' = c.matches
              /\ cpc' = IF c.returns THEN "true" ELSE "false"
    /\ UNCHANGED <<variant, doc, lines, data_start_index, pc, first, runs, calls>>
    /\ UNCHANGED <<detectorVars, acquireVars, commandVars, ocrVars>>

NextCompare == Next \/ CompareWithExpected

SpecCompare == InitCompare /\ [][NextCompare]_vars

-----------------------------------------------------------------------------
(* Properties. *)

\* the goods items of the record
items == data.GOOITEGDS

\* the lines at or after line start that are an 8-digit code on their own
code_lines_from(start) == {i \in start..(N - 1) : match_d_8("^\\d{8}$", SL(i))}

\* the lines that carry an 8-digit code within the four lines after a tariff label
\* that is at or after line start
labelled_code_lines(start) ==
    {j \in 0..(N - 1) :
        /\ search_b_d_8_b("\\b(\\d{8})\\b", SL(j))
        /\ \E i \in start..(N - 1) : tariff_label_at(i) /\ i < j /\ j <= i + 4}

HeaderKeys ==
    {"TotGroMasHEA307", "IdeOfMeaOfTraAtDHEA78", "NatOfMeaOfTraCroHEA87",
     "TraModAtBorHEA76", "CouOfDisCodHEA55", "CouOfDesCodHEA30", "ConIndHEA96",
     "DecPlaHEA394"}
SenderKeys ==
    {"NamEX17", "StrAndNumEX122", "PosCodEX123", "CitEX124", "CouEX125", "TINEX159"}
ReceiverKeys ==
    {"NamCE17", "StrAndNumCE122", "PosCodCE123", "CitCE124", "CouCE125", "TINCE159"}
ItemKeys ==
    {"IteNumGDS7", "GroMasGDS46", "GooDesGDS23", "UNDanGooCodGDI1", "COMCODGODITM",
     "PACGS2", "PRODOCDC2"}

\* C2, as the specification states it: every field of the declaration shape is a
\* key of the record extract_all returns.
C2_AsStated ==
    pc = "done" =>
        /\ HeaderKeys \subseteq DOMAIN data.HEAHEA
        /\ SenderKeys \subseteq DOMAIN data.TRAEXPEX1
        /\ ReceiverKeys \subseteq DOMAIN data.TRACONCE1
        /\ {"SeaNumSLI2", "SEAIDSID"} \subseteq DOMAIN data.SEAINFSLI
        /\ \A k \in 1..Len(items) : ItemKeys \subseteq DOMAIN items[k]

\* C3: detect_format returns CUSTOMS exactly when the customs score is above the
\* standard score and at least 2, STANDARD exactly when the standard score is above
\* the customs score and at least 2, and UNKNOWN otherwise, an empty text included.
C3_Decision ==
    dpc \in {"detected", "redetected"} =>
        LET customs == customs_indicators(text)
            standard == standard_indicators(text)
        IN  /\ scores = IF text = {} THEN <<0, 0>> ELSE <<customs, standard>>
            /\ result = "customs" <=> (text # {} /\ customs > standard /\ customs >= 2)
            /\ result = "standard" <=> (text # {} /\ standard > customs /\ standard >= 2)
            /\ result \in {"customs", "standard", "unknown"}

\* a detection that ended in a tie at or above the threshold
C3_Witness ==
    /\ dpc \in {"detected", "redetected"} /\ text # {}
    /\ scores[1] = scores[2] /\ scores[1] >= 2
    /\ result = "unknown"

\* C4, as the specification states it: no extractor of extract_all raises.
C4_AsStated == pc # "raised"

landmarks ==
    IF variant = "generic"
    THEN Asc(code_lines_from(max(data_start_index, SearchFloorGeneric)))
    ELSE [k \in 1..Len(commodity_positions_customs) |-> commodity_positions_customs[k][1]]

\* C6: the items carry the sequence numbers "1".."N" in list order; the landmarks
\* are in document order, and item k carries the 8-digit code of the k-th
\* landmark line.
C6_Numbering ==
    pc = "done" =>
        /\ \A k \in 1..Len(items) :
              items[k].IteNumGDS7 =
                  S(<<"1", "2", "3", "4", "5", "6", "7", "8", "9">>[k])
        /\ \A k \in 1..(Len(landmarks) - 1) : landmarks[k] < landmarks[k + 1]
        /\ landmarks # <<>> =>
              /\ Len(items) = Len(landmarks)
              /\ \A k \in 1..Len(items) :
                    items[k].COMCODGODITM.ComNomCMD1 =
                        S(group_b_d_8_b_1("\\b(\\d{8})\\b", 1, SL(landmarks[k])))

\* a record with two items that carry different codes
C6_Witness ==
    /\ pc = "done"
    /\ Len(items) >= 2
    /\ items[1].COMCODGODITM.ComNomCMD1 # items[2].COMCODGODITM.ComNomCMD1
    /\ items[2].IteNumGDS7 = S("2")

\* C7: no (type, reference) pair occurs twice in the document list of an item.
C7_NoDuplicates ==
    pc = "done" =>
        \A k \in 1..Len(items) :
            \A a, b \in 1..Len(items[k].PRODOCDC2) :
                a # b => items[k].PRODOCDC2[a] # items[k].PRODOCDC2[b]

\* a record built from lines that cite a document twice (generic) or that both
\* document patterns match (customs)
C7_Witness ==
    /\ pc = "done"
    /\ \/ /\ variant = "generic"
          /\ \E k \in 1..N : lines[k] = "5010(123) 5010(123)"
          /\ items[1].PRODOCDC2 = <<document("5010", "123")>>
       \/ /\ variant = "customs"
          /\ \E k \in 1..Len(items) :
                items[k].PRODOCDC2 = <<document("AUN", "MK19/2024"),
                                       document("5016", "0052639")>>

\* C8: when no landmark is found the list holds exactly the placeholder item; the
\* list of a returned record is never empty.
C8_Placeholder ==
    pc = "done" =>
        /\ Len(items) >= 1
        /\ landmarks = <<>> =>
              items = <<[IteNumGDS7 |-> S("1"), GroMasGDS46 |-> None,
                         GooDesGDS23 |-> S(""), UNDanGooCodGDI1 |-> None,
                         COMCODGODITM |-> [ComNomCMD1 |-> S("")],
                         PACGS2 |-> <<>>, PRODOCDC2 |-> <<>>]>>

\* a record without landmarks although the document has code lines
C8_Witness ==
    /\ pc = "done"
    /\ landmarks = <<>>
    /\ code_lines_from(0) # {}
    /\ Len(items) = 1

\* the step on which one more indicator of a variant matches and the other
\* variant gains none
gains(matched_before, matched_after) ==
    matched_before \subseteq matched_after /\ matched_before # matched_after

\* C9: when a text gains an indicator of a variant, the score of that variant
\* does not drop, a result of that variant stays, and UNKNOWN does not become the
\* other variant.
C9_Monotone ==
    [][dpc' = "redetected" =>
          /\ ( /\ gains(customs_matched(text), customs_matched(text'))
               /\ standard_matched(text') \subseteq standard_matched(text) )
             => /\ scores'[1] >= scores[1]
                /\ result = "customs" => result' = "customs"
                /\ result = "unknown" => result' # "standard"
          /\ ( /\ gains(standard_matched(text), standard_matched(text'))
               /\ customs_matched(text') \subseteq customs_matched(text) )
             => /\ scores'[2] >= scores[2]
                /\ result = "standard" => result' = "standard"
                /\ result = "unknown" => result' # "customs"]_vars

\* a detection, after a fragment was added to the text, with customs score 4 and
\* standard score 3
C9_Witness ==
    /\ dpc = "redetected"
    /\ scores = <<4, 3>>
    /\ result = "customs"
    /\ Cardinality(text) >= 3

\* C10, as the specification states it: when an acquisition routine returns or
\* raises, every handle it opened has been closed.
C10_AsStated ==
    apc \in {"returned", "raised"} =>
        \A h \in 1..Len(handles) : handles[h] = "closed"


\* the PDFs 1..n in list order
in_order(n) == [k \in 1..n |-> k]

\* C11: in batch mode every PDF is attempted once, in list order, whatever the
\* PDFs before it did, and the result list ends with one entry per PDF: success,
\* or error with the message.
C11_Batch ==
    (command = "batch" /\ env.mkdir = "ok") =>
        /\ bpc = "loop" => attempts = in_order(bi) /\ Len(results) = bi
        /\ bpc \in {"summary", "exited"} =>
              /\ attempts = in_order(Len(pdf_files))
              /\ Len(results) = Len(pdf_files)
              /\ \A k \in 1..Len(results) :
                    /\ results[k].file = filename(k)
                    /\ results[k].status = IF pdf_files[k] = "ok" THEN "success"
                                           ELSE "error"
                    /\ results[k].status = "error" => results[k].error = pdf_files[k]

\* a batch run over three PDFs of which the first two failed
C11_Witness ==
    /\ command = "batch" /\ bpc = "exited"
    /\ pdf_files = <<"extract_raises", "save_raises", "ok">>
    /\ Len(results) = 3
    /\ results[1].status = "error" /\ results[2].status = "error"
    /\ results[3].status = "success"

\* C12, as the specification states it: the batch command exits with 0 exactly
\* when no result has status error; the single-document command exits with a
\* non-zero status exactly when extraction, saving or comparison raised.
C12_AsStated ==
    bpc = "exited" =>
        IF command = "batch"
        THEN exit_status = 0 <=> \A k \in 1..Len(results) : results[k].status # "error"
        ELSE exit_status # 0 <=>
                (env.extract # "ok" \/ env.save = "raise" \/ env.compare = "raise")

\* C12, amended: the batch command exits with 0 exactly when no result has
\* status error and neither the creation of the output directory nor the writing
\* of the report raised.
C12_ExitStatus ==
    bpc = "exited" =>
        IF command = "batch"
        THEN exit_status = 0 <=>
                /\ \A k \in 1..Len(results) : results[k].status # "error"
                /\ env.mkdir = "ok" /\ env.report # "raise"
        ELSE exit_status # 0 <=>
                (env.extract # "ok" \/ env.save = "raise" \/ env.compare = "raise")

\* a batch run that wrote its report and exits with 1 because one PDF failed
C12_Witness ==
    /\ command = "batch" /\ bpc = "exited"
    /\ env.report = "ok"
    /\ Len(results) = 2 /\ results[1].status = "success" /\ results[2].status = "error"
    /\ exit_status = 1

\* the number of leaves (values that are neither dict nor list) of a tree
RECURSIVE leaves(_), leaves_among(_, _)
leaves(v) ==
    IF v.t = "dict" THEN leaves_among({v.at[k] : k \in DOMAIN v.at}, v.at)
    ELSE IF v.t = "list" THEN leaves_among({v.items[i] : i \in DOMAIN v.items}, v.items)
    ELSE 1
leaves_among(values, f) ==
    IF values = {} THEN 0
    ELSE LET x == CHOOSE y \in values : TRUE
         IN  Cardinality({k \in DOMAIN f : f[k] = x}) * leaves(x)
             + leaves_among(values \ {x}, f)

\* C13: a comparison with a reference equal to the record yields no difference,
\* returns true, and records as many matches as the record has leaves.
C13_SelfComparison ==
    [][(CompareWithExpected /\ expected_path' = data) =>
          /\ differences' = <<>>
          /\ cpc' = "true"
          /\ Len(matchlist') = leaves(as_tree(data))]_vars

\* a record with two goods items was compared with itself
C13_Witness ==
    /\ cpc = "true" /\ pc = "done" /\ expected_path = data
    /\ Len(data.GOOITEGDS) = 2
    /\ Len(matchlist) = leaves(as_tree(data))
    /\ Len(matchlist) > 10

sender_and_lrn ==
    /\ dpc # "new"
    /\ \E f \in text : isin_Isprakjach_Izvoznik_2("Isprakjach/Izvoznik", f)
    /\ \E f \in text : isin_LRN_24MK("LRN : 24MK", f)

\* C14, as the specification states it: a sample with the bilingual sender label
\* and an LRN token is classified STANDARD, whatever else it contains.
C14_AsStated == sender_and_lrn => result = "standard"

\* C14, amended: such a sample is classified STANDARD exactly when its customs
\* indicators weigh less than its standard indicators, and so whenever at most
\* one customs indicator matches.
C14_Standard ==
    sender_and_lrn =>
        /\ result = "standard" <=>
              total(<<2, 1, 2, 1>>, customs_matched(text))
                < total(<<2, 2, 1, 1>>, standard_matched(text))
        /\ Cardinality(customs_matched(text)) <= 1 => result = "standard"

\* a sample with the sender label, the LRN token and the Latin party label
C14_Witness ==
    /\ sender_and_lrn
    /\ customs_matched(text) = {1}
    /\ result = "standard"

\* the sample carries the Latin party label twice and no LRN token
consignor_twice ==
    /\ dpc # "new"
    /\ Cardinality({f \in text : isin_Consignor_Exporter_2("Consignor/Exporter", f)}) >= 2
    /\ ~ \E f \in text : search_LRN_s_s_d_2_MK("LRN\\s*:\\s*\\d{2}MK", f)

\* C15, as the specification states it: a sample with the Latin party label
\* twice and no LRN token is classified CUSTOMS, whatever else it contains.
C15_AsStated == consignor_twice => result = "customs"

\* C15, amended: such a sample is classified CUSTOMS exactly when its customs
\* indicators weigh more than its standard indicators, and so whenever no
\* standard indicator or only one of weight 1 matches.
C15_Customs ==
    consignor_twice =>
        /\ result = "customs" <=>
              total(<<2, 1, 2, 1>>, customs_matched(text))
                > total(<<2, 2, 1, 1>>, standard_matched(text))
        /\ standard_matched(text) \in {{}, {3}, {4}} => result = "customs"

\* a sample with the Latin party label twice and nothing of the standard variant
C15_Witness ==
    /\ consignor_twice
    /\ standard_matched(text) = {}
    /\ customs_matched(text) = {1}
    /\ result = "customs"

\* the lines that are a number with an integer value and are followed at once by
\* a line equal to KGM
mass_pairs ==
    {i \in 0..(N - 2) : isdigit(SL(i)) /\ ~ int_raises(SL(i)) /\ SL(i + 1) = "KGM"}

\* C16, as the specification states it: when a numeric line is followed at once
\* by a line equal to KGM, the generic header extractor resolves the total gross
\* mass to the integer value of such a line.
C16_AsStated ==
    (variant = "generic" /\ pc \in {"heahea", "traexpex1", "traconce1", "done"}
        /\ mass_pairs # {}) =>
        /\ Has(data.HEAHEA, "TotGroMasHEA307")
        /\ \E i \in mass_pairs : data.HEAHEA["TotGroMasHEA307"] = I(int(SL(i)))

\* find_data_section of the generic extractor has returned
located == variant = "generic" /\ pc \notin {"new", "text", "idle"}

\* the lines that consist of the declaration-type token, those that carry it, and
\* those that carry a reference-number label
exact_lines == {i \in 0..(N - 1) : match_EX_IM_A_Z_2("^(EX|IM)[A-Z]{2}$", SL(i))}
token_lines ==
    {i \in 0..(N - 1) : match_EX_IM_A_Z_2("^(EX|IM)[A-Z]{2}$", SL(i))
                           \/ search_b_EX_IM_A_Z_2_b("\\b(EX|IM)[A-Z]{2}\\b", L(i))}
label_lines ==
    {i \in 0..(N - 1) : isin_LRN_2("LRN :", L(i)) \/ isin_LRN_3("LRN:", L(i)) \/ isin_LRN("LRN ", L(i))}

\* C18, as the specification states it: when some line consists exactly of the
\* declaration-type token, the section offset is the index of the first such line.
C18_AsStated == (located /\ exact_lines # {}) => data_start_index = Min(exact_lines)

\* C19: the offset is the first line that carries the declaration-type token,
\* wherever a reference-number label is; without such a line it is two lines
\* before the first reference-number label, but not below 0; without either it
\* is 80; it is never negative.
C19_LandmarkOrder ==
    located =>
        /\ token_lines # {} => data_start_index = Min(token_lines)
        /\ (token_lines = {} /\ label_lines # {}) =>
              data_start_index = IF Min(label_lines) < 2 THEN 0 ELSE Min(label_lines) - 2
        /\ (token_lines = {} /\ label_lines = {}) => data_start_index = 80
        /\ data_start_index >= 0

\* the reference-number label is on the second line and no line carries the token
C19_Witness ==
    /\ located
    /\ token_lines = {} /\ Min(label_lines \cup {N}) = 1
    /\ data_start_index = 0

\* C20, as the specification states it: a value of the record is read from a
\* line at or after the section offset; for the total gross mass of the generic
\* header, some line from the offset on is that number.
C20_AsStated ==
    (variant = "generic" /\ pc \in {"heahea", "traexpex1", "traconce1", "done"}
        /\ Has(data.HEAHEA, "TotGroMasHEA307")) =>
        \E i \in data_start_index..(N - 1) :
            /\ isdigit(SL(i)) /\ ~ int_raises(SL(i))
            /\ data.HEAHEA["TotGroMasHEA307"] = I(int(SL(i)))

\* the first attempt that succeeds on a page image, 0 when all three raise
first_ok(image) ==
    IF \A l \in 1..3 : image[l] = "raise" THEN 0
    ELSE Min({l \in 1..3 : image[l] = "ok"})

\* the attempts the claim allows on pages 1..n: on each page the languages in
\* their order, up to the first that succeeds
RECURSIVE attempts_on(_)
attempts_on(n) ==
    IF n = 0 THEN <<>>
    ELSE LET last == IF first_ok(images[n]) = 0 THEN 3 ELSE first_ok(images[n])
         IN  attempts_on(n - 1) \o [l \in 1..last |-> <<n, Langs[l]>>]

\* C21: on each page the attempts are mkd+eng, srp+eng, eng in this order, each
\* only after the one before it raised; the text of the first that succeeds is
\* the page's text; when all three raise, extract_text_with_ocr raises, and
\* self.text and self.lines change only when it returns.
C21_Fallback ==
    /\ [](opc \in {"pages", "returned", "raised"} =>
            /\ full_text = [p \in 1..image_no |-> page_text(p, first_ok(images[p]))]
            /\ \A p \in 1..image_no : first_ok(images[p]) # 0
            /\ opc # "raised" => tried = attempts_on(image_no)
            /\ (opc = "raised" /\ tried # <<>>) =>
                  /\ first_ok(images[image_no + 1]) = 0
                  /\ tried = attempts_on(image_no + 1)
            /\ (opc = "pages" /\ image_no < Len(images)
                  /\ first_ok(images[image_no + 1]) = 0) => ENABLED OcrPage)
    /\ [][(stored' # stored) => (opc' = "returned")]_vars
    /\ [][(opc' = "raised") => (stored' = stored)]_vars

\* the second page failed in all three languages after the first page was read
\* with the second language, and the text stored earlier is still there
C21_Witness ==
    /\ opc = "raised" /\ image_no = 1
    /\ images[1][1] = "raise" /\ images[1][2] = "ok"
    /\ Len(tried) = 5
    /\ full_text = <<"page 1 srp+eng">>
    /\ stored = EarlierText

\* C22, as the specification states it: after extract_traconce1 the receiver's
\* tax id is in the record, with the value null.
C22_AsStated ==
    pc \in {"traconce1", "done"} =>
        /\ Has(data.TRACONCE1, "TINCE159")
        /\ data.TRACONCE1["TINCE159"] = None

\* C23, as the specification states it: a receiver postal code made up only of zeros
\* is never stored; the record holds null in its place.
C23_AsStated ==
    (pc \in {"traconce1", "done"} /\ Has(data.TRACONCE1, "PosCodCE123")
        /\ data.TRACONCE1["PosCodCE123"] # None)
    => ~match_0("^0+$", data.TRACONCE1["PosCodCE123"].s)

\* C27, as the specification states it: a sender address of the generic extractor is
\* the text of a line after the tax-id anchor, also when no name line was found.
C27_AsStated ==
    (variant = "generic" /\ pc \in {"traexpex1", "traconce1", "done"}
        /\ Has(data.TRAEXPEX1, "StrAndNumEX122"))
    => /\ sender_anchor_generic # -1
       /\ \E k \in (sender_anchor_generic + 1)..(N - 1) :
             SL(k) = data.TRAEXPEX1["StrAndNumEX122"].s

\* C28, as the specification states it: a resolved dispatch or destination country
\* code is a bare two-letter code other than MK.
C28_AsStated ==
    pc \in {"heahea", "traexpex1", "traconce1", "done"} =>
        \A key \in {"CouOfDisCodHEA55", "CouOfDesCodHEA30"} :
            Has(data.HEAHEA, key) =>
                /\ match_A_Z_2("^[A-Z]{2}$", data.HEAHEA[key].s)
                /\ data.HEAHEA[key].s # "MK"

\* C28, amended: a resolved destination country code is a bare two-letter code other
\* than MK; a resolved dispatch country code is a bare two-letter code, which may be
\* MK, and in the customs layout it is always MK.
C28_Codes ==
    pc \in {"heahea", "traexpex1", "traconce1", "done"} =>
        /\ Has(data.HEAHEA, "CouOfDesCodHEA30") =>
              /\ match_A_Z_2("^[A-Z]{2}$", data.HEAHEA["CouOfDesCodHEA30"].s)
              /\ data.HEAHEA["CouOfDesCodHEA30"].s # "MK"
        /\ Has(data.HEAHEA, "CouOfDisCodHEA55") =>
              /\ match_A_Z_2("^[A-Z]{2}$", data.HEAHEA["CouOfDisCodHEA55"].s)
              /\ variant = "customs" => data.HEAHEA["CouOfDisCodHEA55"].s = "MK"

\* both codes are resolved, the dispatch code as MK, in a document that has an MK line
\* after a destination country name
C28_Witness ==
    /\ pc = "done"
    /\ Has(data.HEAHEA, "CouOfDesCodHEA30") /\ Has(data.HEAHEA, "CouOfDisCodHEA55")
    /\ data.HEAHEA["CouOfDisCodHEA55"].s = "MK"
    /\ \E i \in 0..(N - 2) : names_country(SL(i)) /\ SL(i + 1) = "MK"

\* the lines the packaging loop of the k-th item scans, when it runs to its end
pack_window(k) ==
    IF variant = "generic"
    THEN max(0, landmarks[k] - 30)
            ..(min(N, IF k < Len(landmarks) THEN landmarks[k + 1] ELSE N) - 1)
    ELSE max(0, landmarks[k] - 10)..(min(landmarks[k] + 3, N) - 1)

\* the line matches: a package type (generic), one of the two formats (customs)
pack_match(line) ==
    IF variant = "generic" THEN line \in {"PX", "CT", "BX", "PA", "PK", "CS", "CR"}
    ELSE old_format(line) \/ new_format(line)

\* the first matching line of the k-th item's window, or -1
first_pack_line(k) == FirstOf({i \in pack_window(k) : pack_match(SL(i))})

\* the package the customs formats give for a line, the older format first
pack_older_first(line) ==
    IF old_format(line)
    THEN package(group_opredeleno_d_A_Z_2_2("opredeleno-(\\d+)-([A-Z]{2})", 2, line),
                 group_opredeleno_d_A_Z_2_1("opredeleno-(\\d+)-([A-Z]{2})", 1, line))
    ELSE package(group_Paleta_Karton_Kutija_San_2("(Paleta|Karton|Kutija|Sandak|Vreka|Kontejner)-(\\d+)-([A-Z]{2})", 3, line),
                 group_Paleta_Karton_Kutija_San("(Paleta|Karton|Kutija|Sandak|Vreka|Kontejner)-(\\d+)-([A-Z]{2})", 2, line))

\* C24, as the specification states it: every goods item has at most one package, and
\* the type code and the count of the package both come from the first matching line
\* of the item's window (so that line holds the digits of the count).
C24_AsStated ==
    \A k \in 1..Len(data.GOOITEGDS) :
        k <= Len(landmarks) =>
            LET packs == data.GOOITEGDS[k].PACGS2
                i == first_pack_line(k)
            IN  /\ Len(packs) <= 1
                /\ Len(packs) = 1 =>
                      /\ i # -1
                      /\ search_d("\\d", SL(i))
                      /\ IF variant = "generic" THEN packs[1].KinOfPacGS23.s = SL(i)
                         ELSE packs[1] = pack_older_first(SL(i))

\* C24, amended: every goods item has at most one package, read at the first matching
\* line of the item's window. In the customs layout a line matches when the older or
\* the newer format matches it, the older one is tried first, and type code and count
\* come from that line. In the generic layout a line matches when it is a package
\* type; the count is the non-empty line right before it, and there is no package
\* when that line is not a number.
C24_FirstMatch ==
    \A k \in 1..Len(data.GOOITEGDS) :
        k <= Len(landmarks) =>
            LET packs == data.GOOITEGDS[k].PACGS2
                i == first_pack_line(k)
                count == find_prev_nonempty_line(i - 1, 1)[2]
            IN  IF i = -1 THEN packs = <<>>
                ELSE IF variant = "customs" THEN packs = <<pack_older_first(SL(i))>>
                ELSE IF count # "" /\ isdigit(count) THEN packs = <<package(SL(i), count)>>
                ELSE packs = <<>>

\* an item of the customs layout has its package from a line both formats match, and
\* a later line of its window matches as well
C24_Witness ==
    /\ pc = "done" /\ variant = "customs"
    /\ \E k \in 1..Len(data.GOOITEGDS) :
          /\ k <= Len(landmarks)
          /\ Len(data.GOOITEGDS[k].PACGS2) = 1
          /\ first_pack_line(k) # -1
          /\ old_format(SL(first_pack_line(k))) /\ new_format(SL(first_pack_line(k)))
          /\ \E j \in pack_window(k) : j > first_pack_line(k) /\ pack_match(SL(j))

\* C29, as the specification states it: in a record with two or more goods items, no
\* packaging line is the one two different items have their package read from.
C29_AsStated ==
    \A a, b \in 1..Len(data.GOOITEGDS) :
        (/\ a < b /\ b <= Len(landmarks)
         /\ data.GOOITEGDS[a].PACGS2 # <<>> /\ data.GOOITEGDS[b].PACGS2 # <<>>)
        => first_pack_line(a) # first_pack_line(b)

\* the number of findings of one kind ("missing", "length", "differs" or "match") the
\* claim lets a comparison of a record with a reference make: the keys of a
\* reference mapping, the elements up to the shorter length, the leaves
RECURSIVE tally(_, _, _), tally_keys(_, _, _, _), tally_items(_, _, _, _)
tally(kind, a, r) ==
    IF r.t = "dict" THEN tally_keys(kind, a, r, DOMAIN r.at)
    ELSE IF r.t = "list"
    THEN (IF kind = "length" /\ Len(a.items) # Len(r.items) THEN 1 ELSE 0)
         + tally_items(kind, a, r, min(Len(a.items), Len(r.items)))
    ELSE IF kind = "differs" THEN (IF py_equal(a, r) THEN 0 ELSE 1)
    ELSE IF kind = "match" THEN (IF py_equal(a, r) THEN 1 ELSE 0)
    ELSE 0
tally_keys(kind, a, r, keys) ==
    IF keys = {} THEN 0
    ELSE LET key == CHOOSE k \in keys : TRUE
         IN  (IF key \in DOMAIN a.at THEN tally(kind, a.at[key], r.at[key])
              ELSE IF kind = "missing" THEN 1 ELSE 0)
             + tally_keys(kind, a, r, keys \ {key})
tally_items(kind, a, r, n) ==
    IF n = 0 THEN 0
    ELSE tally(kind, a.items[n], r.items[n]) + tally_items(kind, a, r, n - 1)

\* C25: the comparison is driven by the reference. It reports one difference for every
\* key of a reference mapping the record lacks, one for every list whose lengths
\* differ, whose elements it then compares up to the shorter length, and one for
\* every unequal leaf; a key only the record has gives no difference; and it returns
\* true exactly when the list of differences is empty.
C25_ReferenceDriven ==
    [][CompareWithExpected =>
          LET a == as_tree(data)
              r == as_tree(expected_path')
          IN  /\ \A kind \in {"missing", "length", "differs"} :
                    Cardinality({k \in 1..Len(differences') : differences'[k].kind = kind})
                        = tally(kind, a, r)
              /\ Len(matchlist') = tally("match", a, r)
              /\ \A k \in 1..Len(differences') :
                    differences'[k].path \notin (DOMAIN data \ DOMAIN expected_path')
              /\ (cpc' = "true") <=> (differences' = <<>>)]_vars

\* a comparison with a reference that is one item longer and differs in the first
\* item: a length difference, a leaf difference within the shorter length, and matches
C25_Witness ==
    /\ cpc = "false" /\ pc = "done"
    /\ Len(expected_path.GOOITEGDS) > Len(data.GOOITEGDS)
    /\ \E k \in 1..Len(differences) : differences[k].kind = "length"
    /\ \E k \in 1..Len(differences) :
          differences[k].kind = "differs" /\ differences[k].path = "GOOITEGDS[0].IteNumGDS7"
    /\ Len(matchlist) > 0

\* the fragments a detection step adds to the sample
added == sample' \ sample

\* C26, as the specification states it: when a text gains markers of one variant
\* only, the score of the other variant stays as it was.
C26_AsStated ==
    [][dpc' = "redetected" =>
          /\ (customs_matched(added) = {} /\ standard_matched(added) # {})
                => scores'[1] = scores[1]
          /\ (standard_matched(added) = {} /\ customs_matched(added) # {})
                => scores'[2] = scores[2]]_vars

\* C26, amended: the standard score depends on the standard indicators only; the
\* customs score depends on the customs indicators, one of which (RBD) counts only
\* in a text without the standard marker RDB. A text that gains no standard
\* indicator keeps its standard score; a text that gains no customs indicator keeps
\* its customs score unless RDB comes in, and then the score drops by at most 1.
C26_Scores ==
    [][dpc' = "redetected" =>
          /\ standard_matched(added) = {} => scores'[2] = scores[2]
          /\ (customs_matched(added) = {} /\ ~\E f \in added : isin_RDB("RDB", f))
                => scores'[1] = scores[1]
          /\ customs_matched(added) = {}
                => scores'[1] \in {scores[1], scores[1] - 1}]_vars

\* a text with the customs marker RBD was redetected after the standard marker RDB
\* came in, and after the Latin party label joined the sender label
C26_Witness ==
    /\ dpc = "redetected"
    /\ {"RBD 12", "RDB 5", "2 Isprakjach/Izvoznik", "14 Consignor/Exporter"} \subseteq text
    /\ 2 \notin customs_matched(text)
    /\ scores = <<2, 3>>

\* C30, as the specification states it: a second call of extract_all on the same
\* extractor, over the same lines, returns a record equal to that of the first call.
C30_AsStated ==
    (calls = MaxCalls /\ pc = "done") => data = first.record
====
